---------------------------- MODULE Spec2Model ----------------------------
(***************************************************************************)
(* The SSYNC receiver of the object server: one Receiver per SSYNC         *)
(* request, run as a generator whose chunks form the response body.        *)
(* Sessions share the replication semaphore of the object controller, the  *)
(* replication locks of the diskfile manager and the on-disk partitions.   *)
(***************************************************************************)
EXTENDS Integers, Sequences, FiniteSets, TLC

(***************************************************************************)
(* Bounds of the model.                                                    *)
(***************************************************************************)
NumSessions == 2
MaxConcurrency == 2
MaxPerDevice == 1
MaxRows == 1
MaxUpdates == 2
MaxTs == 2
MaxCheckRows == 2
MaxWireRows == 1
MaxCheckTs == 3

(***************************************************************************)
(* Configuration and fixtures of the object controller under test.         *)
(***************************************************************************)
ReplicationFailureThreshold == 2
FailureRatioNum == 3
FailureRatioDen == 2
LocalFragIndex == 2

Sessions == 1..NumSessions
Background == 0

NoHeader == "<absent>"
NoFragIndex == -1
NoPolicy == -1

Devices == {"sda1", "sdc1"}
MountedDevices == {"sda1"}
Partitions == {"1", "2"}
PolicyIndices == {0, 1}
ObjectHash == "hash1"
OtherHash == "hash2"
ObjectHashes == {ObjectHash, OtherHash}

PolicyHeaderValues == {NoHeader, "0", "1", "2"}
FragHeaderValues == {NoHeader, "2", "7", "None"}
NodeHeaderValues == {NoHeader, "6", "None"}

(***************************************************************************)
(* int(): the decimal strings the requests carry; anything else raises     *)
(* ValueError, modelled as the value ParseError.                           *)
(***************************************************************************)
ParseError == -2

ParseInt(v) ==
    CASE v = "0" -> 0
      [] v = "1" -> 1
      [] v = "2" -> 2
      [] v = "6" -> 6
      [] v = "7" -> 7
      [] OTHER -> ParseError

(***************************************************************************)
(* Request paths, as the sequence of their segments after the leading '/'. *)
(* "/device/" is <<device, "">>.                                           *)
(***************************************************************************)
Paths ==
    {<<d>> : d \in Devices}
    \cup {<<d, "">> : d \in Devices}
    \cup {<<d, p>> : d \in Devices, p \in Partitions}
    \cup {<<d, p, "junk">> : d \in Devices, p \in Partitions}

AllRequests ==
    [path : Paths, policy_hdr : PolicyHeaderValues,
     frag_hdr : FragHeaderValues, node_hdr : NodeHeaderValues]

\* A request that carries the SSYNC method and no optional header.
PlainRequests ==
    {r \in AllRequests : /\ r.policy_hdr = NoHeader
                         /\ r.frag_hdr = NoHeader
                         /\ r.node_hdr = NoHeader}

\* Mutant: an empty segment passes for a partition.
ValidPath_Lenient(path) == Len(path) = 2

\* split_path(path, 2, 2, False): exactly two non-empty segments.
ValidPath(path) == Len(path) = 2 /\ path[1] # "" /\ path[2] # ""

\* The storage policy a request names: the legacy policy 0 without the
\* header, NoPolicy when no policy has the index.
PolicyOf(r) ==
    IF r.policy_hdr = NoHeader THEN 0
    ELSE IF ParseInt(r.policy_hdr) \in PolicyIndices
         THEN ParseInt(r.policy_hdr) ELSE NoPolicy

\* Whether X-Backend-Ssync-Frag-Index is present and does not parse.
BadFragIndex(r) ==
    r.frag_hdr # NoHeader /\ ParseInt(r.frag_hdr) = ParseError

\* Mutant: without the frag index header the node index header is used.
FragIndexOf_NodeFallback(r) ==
    IF r.frag_hdr # NoHeader THEN ParseInt(r.frag_hdr)
    ELSE IF r.node_hdr # NoHeader /\ ParseInt(r.node_hdr) # ParseError
         THEN ParseInt(r.node_hdr) ELSE NoFragIndex

\* The session's frag_index: X-Backend-Ssync-Frag-Index alone decides it.
FragIndexOf(r) ==
    IF r.frag_hdr = NoHeader THEN NoFragIndex ELSE ParseInt(r.frag_hdr)

\* Mutant: the device is not checked for being mounted.
InitStatus_NoMountCheck(r) ==
    IF ~ValidPath(r.path) THEN 400
    ELSE IF PolicyOf(r) = NoPolicy THEN 503
    ELSE IF BadFragIndex(r) THEN 400
    ELSE 0

\* The outcome of initialize_request: 0 when the Receiver is constructed,
\* else the status of the HTTP error raised by the constructor.
InitStatus(r) ==
    IF ~ValidPath(r.path) THEN 400
    ELSE IF PolicyOf(r) = NoPolicy THEN 503
    ELSE IF BadFragIndex(r) THEN 400
    ELSE IF r.path[1] \notin MountedDevices THEN 507
    ELSE 0

InitErrorBody(r) ==
    IF ~ValidPath(r.path) THEN <<"Invalid path:">> \o r.path
    ELSE IF PolicyOf(r) = NoPolicy
         THEN <<"No policy with index", r.policy_hdr>>
    ELSE IF BadFragIndex(r)
         THEN <<"Invalid X-Backend-Ssync-Frag-Index", r.frag_hdr>>
    ELSE <<"Insufficient Storage", "Drive:", r.path[1]>>

(***************************************************************************)
(* The chunks of a response body.                                          *)
(***************************************************************************)
BlankLine == <<"">>
MissingCheckStartLine == <<":MISSING_CHECK: START">>
MissingCheckEndLine == <<":MISSING_CHECK: END">>
UpdatesStartLine == <<":UPDATES: START">>
UpdatesEndLine == <<":UPDATES: END">>
ErrorLine(code, msg) == <<":ERROR:", ToString(code)>> \o msg

IsErrorLine(l) == l[1] = ":ERROR:"
PhaseMarkers ==
    {MissingCheckStartLine, MissingCheckEndLine, UpdatesStartLine,
     UpdatesEndLine}

Range(seq) == {seq[i] : i \in DOMAIN seq}

VARIABLES conf, sem, locks, disk, rcv, account

vars == <<conf, sem, locks, disk, rcv, account>>

(***************************************************************************)
(* State.                                                                  *)
(*   conf   the configuration of the process                               *)
(*   sem    free permits of replication_semaphore                          *)
(*   locks  replication locks held: [device, policy, partition, holder]    *)
(*   disk   per partition directory, the local record of ObjectHash        *)
(*   rcv    per session, the Receiver and its response                     *)
(*   account  the database of one account of the account server, and the   *)
(*          responses of the server to the requests made on it             *)
(***************************************************************************)
Confs ==
    [replication_concurrency : 1..MaxConcurrency,
     replication_concurrency_per_device : 0..MaxPerDevice]

Dirs == [device : MountedDevices, policy : PolicyIndices,
         partition : Partitions]

DirOf(r) == [device |-> r.device, policy |-> r.policy,
             partition |-> r.partition]

NoRequest ==
    [path |-> <<>>, policy_hdr |-> NoHeader, frag_hdr |-> NoHeader,
     node_hdr |-> NoHeader]

NewReceiver ==
    [pc |-> "new", request |-> NoRequest, device |-> "", partition |-> "",
     policy |-> NoPolicy,
     frag_index |-> NoFragIndex, status |-> 0, body |-> <<>>,
     wanted |-> <<>>, rows |-> 0, reads |-> 0,
     line |-> [hash |-> "", ts_data |-> 0, rest |-> <<>>],
     remote |-> [object_hash |-> "", ts_data |-> 0, ts_meta |-> 0,
                 ts_ctype |-> 0, durable |-> FALSE],
     commit |-> "", announced |-> <<>>, exceptions |-> 0,
     successes |-> 0, failures |-> 0, dispatched |-> 0,
     unread |-> 0, sent |-> <<>>, calls |-> <<>>, read_failed |-> <<>>,
     resp_status |-> 0, request_lines |-> 0, requests |-> <<>>,
     disconnect |-> TRUE, socket_closed |-> 0,
     exit |-> "", holds_sem |-> FALSE,
     sem_calls |-> 0, sem_acquires |-> 0, sem_releases |-> 0,
     lock_requests |-> 0, lock_acquires |-> 0, lock_releases |-> 0,
     mutations |-> 0]

\* A fragment written but not committed: <ts>#2.data.
NonDurableFrag ==
    [ts_data |-> 1, ts_meta |-> 1, ts_ctype |-> 1, durable |-> FALSE,
     deleted |-> FALSE, frag_index |-> LocalFragIndex, writes |-> 0]

\* The account server has no database of the account, and has answered no
\* request.
NoAccount ==
    [exists |-> FALSE, deleted |-> FALSE, put_timestamp |-> 0,
     delete_timestamp |-> 0, containers |-> {}, responses |-> <<>>]

Init ==
    /\ conf \in Confs
    /\ sem = conf.replication_concurrency
    /\ locks = {}
    /\ disk = [d \in Dirs |-> NonDurableFrag]
    /\ rcv = [s \in Sessions |-> NewReceiver]
    /\ account = NoAccount

(***************************************************************************)
(* Receiver.__init__ / initialize_request: runs before the response        *)
(* starts, so an error raised here is the HTTP response itself.            *)
(***************************************************************************)
Construct(s, r) ==
    /\ rcv[s].pc = "new"
    /\ rcv' = [rcv EXCEPT ![s] =
         IF InitStatus(r) # 0
         THEN [@ EXCEPT !.pc = "http_error", !.request = r,
                        !.status = InitStatus(r),
                        !.body = <<InitErrorBody(r)>>]
         ELSE [@ EXCEPT !.pc = "init", !.request = r,
                        !.device = r.path[1], !.partition = r.path[2],
                        !.policy = PolicyOf(r),
                        !.frag_index = FragIndexOf(r)]]
    /\ UNCHANGED <<account, conf, sem, locks, disk>>

(***************************************************************************)
(* Receiver.__call__: the first chunk is a blank line, which makes the     *)
(* server send the 200 response headers.                                   *)
(***************************************************************************)
Start(s) ==
    /\ rcv[s].pc = "init"
    /\ rcv' = [rcv EXCEPT ![s].pc = "semaphore", ![s].status = 200,
                          ![s].body = <<BlankLine>>]
    /\ UNCHANGED <<account, conf, sem, locks, disk>>

(***************************************************************************)
(* The end of a session.  The replication lock is released by its context  *)
(* manager and the semaphore by the finally clause of __call__, whichever  *)
(* way the with/try blocks are left.                                       *)
(***************************************************************************)
HeldBy(s) == {l \in locks : l.holder = s}

\* Mutant: the lock outlives the session.
ReleaseLock_Leaked(s) == locks

ReleaseLock(s) == locks \ HeldBy(s)

ReleaseSemaphore(s) == IF rcv[s].holds_sem THEN sem + 1 ELSE sem

Released(s, r) ==
    [r EXCEPT !.pc = "done",
              !.holds_sem = FALSE,
              !.sem_releases = @ + (IF rcv[s].holds_sem THEN 1 ELSE 0),
              !.lock_releases = @ + Cardinality(HeldBy(s))]

\* Mutant: failed updates end the response with the status 500.
Leave_StatusFromError(s, r, exit, lines) ==
    /\ rcv' = [rcv EXCEPT ![s] =
         [Released(s, r) EXCEPT !.exit = exit,
                                !.status =
                                   IF exit = "http_error" THEN 500 ELSE @,
                                !.body = @ \o lines,
                                !.exceptions =
                                   @ + (IF exit = "exception" THEN 1 ELSE 0),
                                !.socket_closed = @ + 1]]
    /\ sem' = ReleaseSemaphore(s)
    /\ locks' = ReleaseLock(s)

\* Left by an exception: the handler named `exit` yields `lines`; disconnect
\* is still True, so the socket is shut down and closed.
Leave(s, r, exit, lines) ==
    /\ rcv' = [rcv EXCEPT ![s] =
         [Released(s, r) EXCEPT !.exit = exit,
                                !.body = @ \o lines,
                                !.exceptions =
                                   @ + (IF exit = "exception" THEN 1 ELSE 0),
                                !.socket_closed = @ + 1]]
    /\ sem' = ReleaseSemaphore(s)
    /\ locks' = ReleaseLock(s)

\* Mutant: the semaphore is not consulted.
SemaphoreFree_Unbounded == TRUE

\* replication_semaphore.acquire(False): non-blocking.
SemaphoreFree == sem > 0

ServiceUnavailableLine == ErrorLine(503, <<"Service Unavailable">>)

\* Mutant: a session that was refused a permit carries on without one.
SemaphoreRefused_Proceeds(s, r) ==
    /\ rcv' = [rcv EXCEPT ![s] = [r EXCEPT !.pc = "lock"]]
    /\ UNCHANGED <<sem, locks>>

\* swob.HTTPServiceUnavailable is raised inside the generator, after the
\* response has started: it is caught and reported in-band.
SemaphoreRefused(s, r) ==
    Leave(s, r, "semaphore", <<ServiceUnavailableLine>>)

TryAcquire(s) ==
    /\ rcv[s].pc = "semaphore"
    /\ LET r == [rcv[s] EXCEPT !.sem_calls = @ + 1] IN
       IF SemaphoreFree
       THEN /\ sem' = sem - 1
            /\ rcv' = [rcv EXCEPT ![s] =
                 [r EXCEPT !.pc = "lock", !.holds_sem = TRUE,
                           !.sem_acquires = @ + 1]]
            /\ UNCHANGED locks
       ELSE SemaphoreRefused(s, r)
    /\ UNCHANGED <<account, conf, disk>>

(***************************************************************************)
(* diskfile_mgr.replication_lock(device, policy, partition): a lock on the *)
(* partition directory and, when replication_concurrency_per_device is     *)
(* set, one of that many slots of the device; it gives up after            *)
(* replication_lock_timeout.                                               *)
(***************************************************************************)
\* Mutant: the lock of a partition is handed out whoever holds it.
PartitionFree_Shared(device, policy, partition) == TRUE

\* Mutant: one lock for the whole device.
PartitionFree_PerDevice(device, policy, partition) ==
    ~\E l \in locks : l.device = device

PartitionFree(device, policy, partition) ==
    ~\E l \in locks : /\ l.device = device
                      /\ l.policy = policy
                      /\ l.partition = partition

DeviceSlotFree(device) ==
    \/ conf.replication_concurrency_per_device = 0
    \/ Cardinality({l \in locks : l.device = device})
         < conf.replication_concurrency_per_device

LockAvailable(device, policy, partition) ==
    PartitionFree(device, policy, partition) /\ DeviceSlotFree(device)

\* The lock file the wait timed out on: the device's slots are taken
\* before the partition's lock.
LockPath(device, partition) ==
    IF DeviceSlotFree(device)
    THEN <<device, "objects", partition, ".lock-replication">>
    ELSE <<device, ".lock-replication">>

\* Mutant: the lock timeout is reported like a timeout of the client.
LockTimeoutLine_408(device, partition) ==
    ErrorLine(408, <<"seconds:">> \o LockPath(device, partition))

LockTimeoutLine(device, partition) ==
    ErrorLine(0, <<"seconds:">> \o LockPath(device, partition))

\* Mutant: the lock is always taken in the legacy policy's directory.
LockArgs_Legacy(r) ==
    [device |-> r.device, policy |-> 0, partition |-> r.partition]

\* The arguments the receiver passes to replication_lock.
LockArgs(r) ==
    [device |-> r.device, policy |-> r.policy, partition |-> r.partition]

AcquireLock(s) ==
    /\ rcv[s].pc = "lock"
    /\ LET r == [rcv[s] EXCEPT !.lock_requests = @ + 1]
           a == LockArgs(rcv[s])
       IN
       IF LockAvailable(a.device, a.policy, a.partition)
       THEN /\ locks' = locks \cup
                 {[device |-> a.device, policy |-> a.policy,
                   partition |-> a.partition, holder |-> s]}
            /\ rcv' = [rcv EXCEPT ![s] =
                 [r EXCEPT !.pc = "mc_start", !.lock_acquires = @ + 1]]
            /\ UNCHANGED sem
       ELSE \* exceptions.LockTimeout
            Leave(s, r, "lock_timeout",
                  <<LockTimeoutLine(a.device, a.partition)>>)
    /\ UNCHANGED <<account, conf, disk>>

TimeoutLine_AsException(label) == ErrorLine(0, <<"seconds:", label>>)

(***************************************************************************)
(* Reads of the request body.  A read returns a line, returns nothing (the *)
(* client went away), exceeds client_timeout, or returns what the phase    *)
(* cannot parse.                                                           *)
(***************************************************************************)
TimeoutLine(label) == ErrorLine(408, <<"seconds:", label>>)

\* Mutant: an exception is reported as a server error.
ExceptionLine_ServerError(msg) == ErrorLine(500, msg)

ExceptionLine(msg) == ErrorLine(0, msg)

Read(r) == [r EXCEPT !.reads = @ + 1]

StartKinds == {"start", "eof", "timeout", "other"}

\* Mutant: the end of the stream at a START read is reported as an error.
ReadStart_EofAsError(s, kind, label, next) ==
    CASE kind = "start" ->
           /\ rcv' = [rcv EXCEPT ![s] = [Read(@) EXCEPT !.pc = next]]
           /\ UNCHANGED <<sem, locks>>
      [] kind = "eof" ->
           Leave(s, Read(rcv[s]), "disconnect",
                 <<ExceptionLine(<<"Looking for START", label>>)>>)
      [] kind = "timeout" ->
           Leave(s, Read(rcv[s]), "timeout", <<TimeoutLine(label)>>)
      [] OTHER ->
           Leave(s, Read(rcv[s]), "exception",
                 <<ExceptionLine(<<"Looking for START", label>>)>>)

\* The first read of a phase: `label` names the read, `next` the state the
\* START line leads to.
ReadStart(s, kind, label, next) ==
    CASE kind = "start" ->
           /\ rcv' = [rcv EXCEPT ![s] = [Read(@) EXCEPT !.pc = next]]
           /\ UNCHANGED <<sem, locks>>
      [] kind = "eof" ->
           \* SsyncClientDisconnected: logged, nothing is yielded
           Leave(s, Read(rcv[s]), "disconnect", <<>>)
      [] kind = "timeout" ->
           Leave(s, Read(rcv[s]), "timeout", <<TimeoutLine(label)>>)
      [] OTHER ->
           Leave(s, Read(rcv[s]), "exception",
                 <<ExceptionLine(<<"Looking for START", label>>)>>)

MissingCheckStart(s) ==
    /\ rcv[s].pc = "mc_start"
    /\ \E kind \in StartKinds :
         ReadStart(s, kind, "missing_check start", "mc_line")
    /\ UNCHANGED <<account, conf, disk>>

(***************************************************************************)
(* The missing-check phase.  A row announces ObjectHash at ts_data with    *)
(* the durability of the peer's fragment.                                  *)
(***************************************************************************)
Timestamps(max) == 1..max

\* What a row announces of ObjectHash, once decoded: the metadata and the
\* content type are never older than the data.
Rows(max) ==
    {r \in [object_hash : ObjectHashes, ts_data : Timestamps(max),
            ts_meta : Timestamps(max), ts_ctype : Timestamps(max),
            durable : BOOLEAN] :
        r.ts_data <= r.ts_ctype /\ r.ts_ctype <= r.ts_meta}

\* Rows of a peer that has the data alone: one timestamp.
RemoteRows ==
    {r \in Rows(MaxTs) : /\ r.object_hash = ObjectHash
                          /\ r.ts_meta = r.ts_data
                          /\ r.ts_ctype = r.ts_data}

(***************************************************************************)
(* The wire form of a row, "<hash> <ts_data>[ <subparts>][ <extras>]".     *)
(* rest holds the tokens after the timestamp, each split at its commas     *)
(* into subparts and each subpart at its colon, and a delta at its "__",   *)
(* into fields: "m:1__2,junk" is <<<<"m", "1", "2">>, <<"junk">>>>.        *)
(***************************************************************************)
HexDigits == <<"0", "1", "2", "3", "4">>

\* '%x' of a timestamp delta.
Hex(n) == HexDigits[n + 1]

\* int(v, 16)
ParseHex(v) == (CHOOSE i \in DOMAIN HexDigits : HexDigits[i] = v) - 1

\* A timestamp is a time and an offset, utils.Timestamp(t, offset=o); the
\* times are those whose difference a digit can carry.  A timestamp
\* without offset is its time.
OffsetUnit == Len(HexDigits)

MakeTimestamp(raw, offset) == offset * OffsetUnit + raw

Raw(ts) == ts % OffsetUnit

OffsetOf(ts) == ts \div OffsetUnit

\* 'm:%x' or 'm:%x__%x': the delta of a timestamp to ts_data and, if it has
\* one, its offset.
DeltaSubpart(key, ts, ts_data) ==
    <<key, Hex(Raw(ts) - Raw(ts_data))>>
    \o (IF OffsetOf(ts) # 0 THEN <<Hex(OffsetOf(ts))>> ELSE <<>>)

\* The subparts the sender writes for a row, in the sender's order.
KnownSubparts(row) ==
    (IF row.ts_meta # row.ts_data
     THEN <<DeltaSubpart("m", row.ts_meta, row.ts_data)>> ELSE <<>>)
    \o (IF row.ts_ctype # row.ts_data
        THEN <<DeltaSubpart("t", row.ts_ctype, row.ts_data)>> ELSE <<>>)
    \o (IF ~row.durable THEN <<<<"durable", "no">>>> ELSE <<>>)

Reverse(seq) == [i \in DOMAIN seq |-> seq[Len(seq) + 1 - i]]

\* Subparts of a later protocol version, and the tokens it appends.
UnknownSubparts == <<<<"c", "12345">>, <<"junk">>>>

ExtraTokens == <<<<<<"future">>>>, <<<<"parts">>>>>>

Decorations ==
    [reversed : BOOLEAN, unknown : BOOLEAN, extras : BOOLEAN]

Undecorated == [reversed |-> FALSE, unknown |-> FALSE, extras |-> FALSE]

\* The line announcing `row`, written the way `deco` says.
WireLine(row, deco) ==
    LET known == IF deco.reversed THEN Reverse(KnownSubparts(row))
                 ELSE KnownSubparts(row)
        subparts == IF deco.unknown
                    THEN <<UnknownSubparts[1]>> \o known
                           \o <<UnknownSubparts[2]>>
                    ELSE known
    IN [hash |-> row.object_hash,
        ts_data |-> row.ts_data,
        rest |-> (IF subparts = <<>> THEN <<>> ELSE <<subparts>>)
                   \o (IF deco.extras THEN ExtraTokens ELSE <<>>)]

NoLine == [hash |-> "", ts_data |-> 0, rest |-> <<>>]

\* utils.config_true_value
TrueValues == {"true", "1", "yes", "on", "t", "y"}

Lower(v) == CASE v = "True" -> "true" [] v = "False" -> "false" [] OTHER -> v

ConfigTrueValue(v) == Lower(v) \in TrueValues

\* A variant that adds the delta to ts_data as it is, offset and all.
DecodeSubpart_KeepsOffset(result, item) ==
    IF Len(item) < 2 THEN result
    ELSE CASE item[1] = "m" ->
                [result EXCEPT !.ts_meta = result.ts_data + ParseHex(item[2])]
           [] item[1] = "t" ->
                [result EXCEPT
                    !.ts_ctype = result.ts_data + ParseHex(item[2])]
           [] item[1] = "durable" ->
                [result EXCEPT !.durable = ConfigTrueValue(item[2])]
           [] OTHER -> result

\* The offset a delta subpart carries after its "__".
SubpartOffset(item) == IF Len(item) > 2 THEN ParseHex(item[3]) ELSE 0

\* The timestamp a delta subpart stands for: the delta is added to the time
\* of ts_data, the offset is the subpart's own.
DeltaTimestamp(ts_data, item) ==
    MakeTimestamp(Raw(ts_data) + ParseHex(item[2]), SubpartOffset(item))

\* decode_missing: one "k:v" subpart applied to the result so far.
DecodeSubpart(result, item) ==
    IF Len(item) < 2 THEN result
    ELSE CASE item[1] = "m" ->
                [result EXCEPT
                    !.ts_meta = DeltaTimestamp(result.ts_data, item)]
           [] item[1] = "t" ->
                [result EXCEPT
                    !.ts_ctype = DeltaTimestamp(result.ts_data, item)]
           [] item[1] = "durable" ->
                [result EXCEPT !.durable = ConfigTrueValue(item[2])]
           [] OTHER -> result

RECURSIVE DecodeSubparts(_, _)
DecodeSubparts(result, subparts) ==
    IF subparts = <<>> THEN result
    ELSE DecodeSubparts(DecodeSubpart(result, Head(subparts)),
                        Tail(subparts))

\* Mutant: only the first subpart of the list is read.
DecodeMissing_FirstSubpart(line) ==
    LET result == [object_hash |-> line.hash, ts_data |-> line.ts_data,
                   ts_meta |-> line.ts_data, ts_ctype |-> line.ts_data,
                   durable |-> TRUE]
    IN IF Len(line.rest) > 0 /\ line.rest[1] # <<>>
       THEN DecodeSubpart(result, line.rest[1][1])
       ELSE result

\* decode_missing: the third token, if any, is the list of subparts; the
\* tokens after it are not looked at.
DecodeMissing(line) ==
    LET result == [object_hash |-> line.hash, ts_data |-> line.ts_data,
                   ts_meta |-> line.ts_data, ts_ctype |-> line.ts_data,
                   durable |-> TRUE]
    IN IF Len(line.rest) > 0
       THEN DecodeSubparts(result, line.rest[1])
       ELSE result

NoRemote ==
    [object_hash |-> "", ts_data |-> 0, ts_meta |-> 0, ts_ctype |-> 0,
     durable |-> FALSE]

(***************************************************************************)
(* The local record of ObjectHash in a partition directory: nothing        *)
(* (ts_data = 0), a tombstone, or a fragment with or without its durable   *)
(* state.  OtherHash is an object the receiver has never seen.             *)
(***************************************************************************)
NoRecord ==
    [ts_data |-> 0, ts_meta |-> 0, ts_ctype |-> 0, durable |-> FALSE,
     deleted |-> FALSE, frag_index |-> LocalFragIndex, writes |-> 0]

LocalRecords(max) ==
    {NoRecord}
    \cup {[NoRecord EXCEPT !.ts_data = d, !.ts_meta = d, !.ts_ctype = d,
                           !.deleted = TRUE, !.durable = TRUE] :
            d \in Timestamps(max)}
    \cup {[NoRecord EXCEPT !.ts_data = d, !.ts_meta = d, !.ts_ctype = d] :
            d \in Timestamps(max)}
    \cup {[NoRecord EXCEPT !.ts_data = r.ts_data, !.ts_meta = r.ts_meta,
                           !.ts_ctype = r.ts_ctype, !.durable = TRUE] :
            r \in {q \in Rows(max) : q.durable /\ q.object_hash = ObjectHash}}

NoLocal == [has_data |-> FALSE, ts_data |-> 0, has_meta |-> FALSE,
            ts_meta |-> 0, ts_ctype |-> 0]

\* Mutant: an object without files opens as data of timestamp 0.
OpenDiskFile_ZeroTs(frag_index, l) ==
    IF l.ts_data = 0 THEN [NoLocal EXCEPT !.has_data = TRUE]
    ELSE IF l.deleted
         THEN [NoLocal EXCEPT !.has_data = TRUE, !.ts_data = l.ts_data]
    ELSE IF ~l.durable THEN NoLocal
    ELSE IF frag_index # NoFragIndex /\ frag_index # l.frag_index
         THEN NoLocal
    ELSE [has_data |-> TRUE, ts_data |-> l.ts_data,
          has_meta |-> TRUE, ts_meta |-> l.ts_meta,
          ts_ctype |-> l.ts_ctype]

\* df.open() for the session's frag_index: what the receiver learns of the
\* local record.  A tombstone gives its timestamp alone; a fragment
\* without its durable state, or of another index, cannot be opened.
OpenDiskFile(frag_index, l) ==
    IF l.ts_data = 0 THEN NoLocal
    ELSE IF l.deleted
         THEN [NoLocal EXCEPT !.has_data = TRUE, !.ts_data = l.ts_data]
    ELSE IF ~l.durable THEN NoLocal
    ELSE IF frag_index # NoFragIndex /\ frag_index # l.frag_index
         THEN NoLocal
    ELSE [has_data |-> TRUE, ts_data |-> l.ts_data,
          has_meta |-> TRUE, ts_meta |-> l.ts_meta,
          ts_ctype |-> l.ts_ctype]

\* Mutant: a non-durable fragment of any timestamp stands for the one the
\* peer offers.
HasNonDurableFrag_AnyTimestamp(frag_index, l, remote) ==
    /\ l.ts_data > 0
    /\ ~l.deleted
    /\ ~l.durable
    /\ l.frag_index = frag_index

\* The peer offers a fragment the receiver holds without its durable state.
HasNonDurableFrag(frag_index, l, remote) ==
    /\ l.ts_data = remote.ts_data
    /\ ~l.deleted
    /\ ~l.durable
    /\ l.frag_index = frag_index

\* get_diskfile_from_hash: the record of an object in a directory.
RecordOf(dir, hash) == IF hash = ObjectHash THEN disk[dir] ELSE NoRecord

\* The durable commit is called for: the peer's fragment is durable.
PromotionDue(frag_index, l, remote) ==
    HasNonDurableFrag(frag_index, l, remote) /\ remote.durable

\* The commit makes the fragment durable, returns without doing so, or
\* raises.
CommitOutcomes == {"ok", "noop", "raise"}

\* writer.commit(ts_data)
Commit(l) == [l EXCEPT !.durable = TRUE, !.writes = @ + 1]

\* Mutant: the fragment is made durable whatever the peer's is.
CheckLocal_AlwaysPromote(frag_index, l, remote, commit) ==
    IF HasNonDurableFrag(frag_index, l, remote)
    THEN [local |-> OpenDiskFile(frag_index, Commit(l)),
          disk |-> Commit(l), logged |-> 0]
    ELSE [local |-> OpenDiskFile(frag_index, l), disk |-> l, logged |-> 0]

\* Mutant: the fragment is not opened again after the commit.
CheckLocal_NoRecheck(frag_index, l, remote, commit) ==
    IF PromotionDue(frag_index, l, remote)
    THEN IF commit = "ok"
         THEN [local |-> OpenDiskFile(frag_index, l),
               disk |-> Commit(l), logged |-> 0]
         ELSE [local |-> OpenDiskFile(frag_index, l), disk |-> l,
               logged |-> IF commit = "raise" THEN 1 ELSE 0]
    ELSE IF HasNonDurableFrag(frag_index, l, remote)
    THEN [local |-> [OpenDiskFile(frag_index, l) EXCEPT
                             !.has_data = TRUE, !.ts_data = remote.ts_data],
          disk |-> l, logged |-> 0]
    ELSE [local |-> OpenDiskFile(frag_index, l), disk |-> l, logged |-> 0]

\* Mutant: the fragment is taken to be durable once the commit was called.
CheckLocal_TrustCommit(frag_index, l, remote, commit) ==
    IF PromotionDue(frag_index, l, remote)
    THEN IF commit = "ok"
         THEN [local |-> OpenDiskFile(frag_index, Commit(l)),
               disk |-> Commit(l), logged |-> 0]
         ELSE [local |-> OpenDiskFile(frag_index, Commit(l)), disk |-> l,
               logged |-> IF commit = "raise" THEN 1 ELSE 0]
    ELSE IF HasNonDurableFrag(frag_index, l, remote)
    THEN [local |-> [OpenDiskFile(frag_index, l) EXCEPT
                             !.has_data = TRUE, !.ts_data = remote.ts_data],
          disk |-> l, logged |-> 0]
    ELSE [local |-> OpenDiskFile(frag_index, l), disk |-> l, logged |-> 0]

\* _check_local: the local state compared to the row, the record left on
\* disk and the exceptions logged; `commit` is the outcome of the durable
\* commit, tried once.
CheckLocal(frag_index, l, remote, commit) ==
    IF PromotionDue(frag_index, l, remote)
    THEN IF commit = "ok"
         THEN [local |-> OpenDiskFile(frag_index, Commit(l)),
               disk |-> Commit(l), logged |-> 0]
         ELSE [local |-> OpenDiskFile(frag_index, l), disk |-> l,
               logged |-> IF commit = "raise" THEN 1 ELSE 0]
    ELSE IF HasNonDurableFrag(frag_index, l, remote)
    THEN [local |-> [OpenDiskFile(frag_index, l) EXCEPT
                             !.has_data = TRUE, !.ts_data = remote.ts_data],
          disk |-> l, logged |-> 0]
    ELSE [local |-> OpenDiskFile(frag_index, l), disk |-> l, logged |-> 0]

\* encode_wanted: newer content-type metadata is asked for as metadata.
WantsCtype(remote, local) ==
    /\ local.has_meta
    /\ remote.ts_ctype > local.ts_ctype
    /\ remote.ts_ctype > remote.ts_data

\* Mutant: whatever is older locally, data and metadata are both asked for.
EncodeWanted_AllOrNothing(remote, local) ==
    IF ~local.has_data
         \/ remote.ts_data > local.ts_data
         \/ (local.has_meta /\ remote.ts_meta > local.ts_meta)
         \/ WantsCtype(remote, local)
    THEN <<<<remote.object_hash, "dm">>>>
    ELSE <<>>

\* Mutant: what is not newer locally is wanted.
EncodeWanted_NotOlder(remote, local) ==
    LET d == IF local.has_data
             THEN remote.ts_data >= local.ts_data ELSE TRUE
        m == IF local.has_data
             THEN \/ local.has_meta /\ remote.ts_meta >= local.ts_meta
                  \/ WantsCtype(remote, local)
             ELSE TRUE
    IN  IF d /\ m THEN <<<<remote.object_hash, "dm">>>>
        ELSE IF d THEN <<<<remote.object_hash, "d">>>>
        ELSE IF m THEN <<<<remote.object_hash, "m">>>>
        ELSE <<>>

\* Mutant: data of another timestamp is wanted, older or newer.
EncodeWanted_AnyOtherData(remote, local) ==
    LET d == IF local.has_data
             THEN remote.ts_data # local.ts_data ELSE TRUE
        m == IF local.has_data
             THEN \/ local.has_meta /\ remote.ts_meta > local.ts_meta
                  \/ WantsCtype(remote, local)
             ELSE TRUE
    IN  IF d /\ m THEN <<<<remote.object_hash, "dm">>>>
        ELSE IF d THEN <<<<remote.object_hash, "d">>>>
        ELSE IF m THEN <<<<remote.object_hash, "m">>>>
        ELSE <<>>

\* Mutant: the letters of the reply in the order m, d.
EncodeWanted_MetaFirst(remote, local) ==
    LET d == IF local.has_data
             THEN remote.ts_data > local.ts_data ELSE TRUE
        m == IF local.has_data
             THEN \/ local.has_meta /\ remote.ts_meta > local.ts_meta
                  \/ WantsCtype(remote, local)
             ELSE TRUE
    IN  IF d /\ m THEN <<<<remote.object_hash, "md">>>>
        ELSE IF d THEN <<<<remote.object_hash, "d">>>>
        ELSE IF m THEN <<<<remote.object_hash, "m">>>>
        ELSE <<>>

\* encode_wanted: the parts of the object the receiver asks for.
EncodeWanted(remote, local) ==
    LET d == IF local.has_data
             THEN remote.ts_data > local.ts_data ELSE TRUE
        m == IF local.has_data
             THEN \/ local.has_meta /\ remote.ts_meta > local.ts_meta
                  \/ WantsCtype(remote, local)
             ELSE TRUE
    IN  IF d /\ m THEN <<<<remote.object_hash, "dm">>>>
        ELSE IF d THEN <<<<remote.object_hash, "d">>>>
        ELSE IF m THEN <<<<remote.object_hash, "m">>>>
        ELSE <<>>

\* One row: decode_missing, then _check_missing, which may make the local
\* fragment durable.
MissingCheckRow(s, in) ==
    /\ rcv[s].pc = "mc_line"
    /\ rcv[s].rows < in.max_rows
    /\ \E line \in in.lines, commit \in in.commits :
         LET dir == DirOf(rcv[s])
             remote == DecodeMissing(line)
             l == RecordOf(dir, remote.object_hash)
             c == CheckLocal(rcv[s].frag_index, l, remote, commit)
         IN /\ disk' = IF c.disk # l THEN [disk EXCEPT ![dir] = c.disk]
                       ELSE disk
            /\ rcv' = [rcv EXCEPT ![s] =
                 [Read(@) EXCEPT
                    !.rows = @ + 1,
                    !.line = line,
                    !.remote = remote,
                    !.commit = IF PromotionDue(rcv[s].frag_index, l, remote)
                               THEN commit ELSE "",
                    !.announced = @ \o <<remote.object_hash>>,
                    !.wanted = @ \o EncodeWanted(remote, c.local),
                    !.exceptions = @ + c.logged,
                    !.mutations = @ + (IF c.disk # l THEN 1 ELSE 0)]]
    /\ UNCHANGED <<account, conf, sem, locks>>

\* Mutant: the replies follow the end marker.
MissingCheckReply_AfterEnd(wanted) ==
    <<MissingCheckStartLine, MissingCheckEndLine>> \o wanted

\* What missing_check yields once the rows are read.
MissingCheckReply(wanted) ==
    <<MissingCheckStartLine>> \o wanted \o <<MissingCheckEndLine>>

\* Mutant: the sub-requests are read right after the end of the
\* missing-check, without the marker that starts the updates.
MissingCheckEnd_NoStart(s) ==
    /\ rcv[s].pc = "mc_line"
    /\ rcv' = [rcv EXCEPT ![s] =
         [Read(@) EXCEPT !.pc = "up_line",
                         !.line = NoLine,
                         !.remote = NoRemote,
                         !.commit = "",
                         !.body = @ \o MissingCheckReply(rcv[s].wanted)]]
    /\ UNCHANGED <<account, conf, sem, locks, disk>>

\* :MISSING_CHECK: END, or no line at all: the replies are yielded between
\* the markers of the phase.
MissingCheckEnd(s) ==
    /\ rcv[s].pc = "mc_line"
    /\ rcv' = [rcv EXCEPT ![s] =
         [Read(@) EXCEPT !.pc = "up_start",
                         !.line = NoLine,
                         !.remote = NoRemote,
                         !.commit = "",
                         !.body = @ \o MissingCheckReply(rcv[s].wanted)]]
    /\ UNCHANGED <<account, conf, sem, locks, disk>>

FailKinds == {"timeout", "bad"}

MissingCheckFail(s) ==
    /\ rcv[s].pc = "mc_line"
    /\ \E kind \in FailKinds :
         IF kind = "timeout"
         THEN Leave(s, Read(rcv[s]), "timeout",
                    <<TimeoutLine("missing_check line")>>)
         ELSE Leave(s, Read(rcv[s]), "exception",
                    <<ExceptionLine(<<"bad row">>)>>)
    /\ UNCHANGED <<account, conf, disk>>

(***************************************************************************)
(* The updates phase.                                                      *)
(***************************************************************************)
UpdatesStart(s) ==
    /\ rcv[s].pc = "up_start"
    /\ \E kind \in StartKinds :
         ReadStart(s, kind, "updates start", "up_line")
    /\ UNCHANGED <<account, conf, disk>>

Methods == {"PUT", "POST", "DELETE"}

HandlerStatuses == {201, 500}

IsSuccess_Created(status) == status = 201

IsSuccess(status) == status \div 100 = 2

\* What the object server's handler leaves on disk when it succeeds.
Apply(method, ts, frag_index, l) ==
    CASE method = "PUT" ->
           [l EXCEPT !.ts_data = ts, !.ts_meta = ts, !.ts_ctype = ts,
                     !.durable = TRUE, !.deleted = FALSE,
                     !.frag_index = IF frag_index = NoFragIndex
                                    THEN @ ELSE frag_index,
                     !.writes = @ + 1]
      [] method = "DELETE" ->
           [l EXCEPT !.ts_data = ts, !.ts_meta = ts, !.ts_ctype = ts,
                     !.durable = TRUE, !.deleted = TRUE,
                     !.writes = @ + 1]
      [] OTHER ->
           [l EXCEPT !.ts_meta = IF ts > @ THEN ts ELSE @,
                     !.writes = @ + 1]

TooManyFailures_ThresholdOnly(failures, successes) ==
    failures >= ReplicationFailureThreshold

\* The abort policy, evaluated after each sub-request.
TooManyFailures(failures, successes) ==
    /\ failures >= ReplicationFailureThreshold
    /\ \/ successes = 0
       \/ failures * FailureRatioDen > FailureRatioNum * successes

\* A variant that reports the counters as they were before the sub-request.
TooManyLine_Stale(failures, successes) ==
    ExceptionLine(<<"Too many", ToString(failures - 1), "failures to",
                    ToString(successes), "successes">>)

TooManyLine(failures, successes) ==
    ExceptionLine(<<"Too many", ToString(failures), "failures to",
                    ToString(successes), "successes">>)

UpdatesFailedLine_AsException(failures, successes) ==
    ExceptionLine(<<"ERROR: With :UPDATES:", ToString(failures),
                    "failures to", ToString(successes), "successes">>)

UpdatesFailedLine(failures, successes) ==
    ErrorLine(500, <<"ERROR: With :UPDATES:", ToString(failures),
                     "failures to", ToString(successes), "successes">>)

(***************************************************************************)
(* Sub-requests on the wire.  A sub-request is a request line, header      *)
(* lines up to a blank line and, for a PUT, as many body bytes as its      *)
(* Content-Length says; `present` is how many of them the stream holds     *)
(* before it ends.                                                         *)
(***************************************************************************)
NoLength == -1
BadLength == -2

Min(a, b) == IF a < b THEN a ELSE b

\* A sub-request written as the sender writes it; `names` are the names of
\* its header lines in the order they are written.
WellFormed(method, path, ts, length) ==
    [method |-> method, path |-> path, ts |-> ts, line |-> "ok",
     headers |-> "ok", length |-> length,
     present |-> IF length = NoLength THEN 0 ELSE length,
     names |-> (IF length = NoLength THEN <<>> ELSE <<"Content-Length">>)
                  \o <<"X-Timestamp">>]

\* header.strip().lower() of the header names the sub-requests carry.
LowerHeader ==
    [n \in {"Content-Length", "Etag", "X-Timestamp", "X-Object-Meta-Test1",
            "Specialty-Header", "X-Backend-No-Commit"} |->
       CASE n = "Content-Length" -> "content-length"
         [] n = "Etag" -> "etag"
         [] n = "X-Timestamp" -> "x-timestamp"
         [] n = "X-Object-Meta-Test1" -> "x-object-meta-test1"
         [] n = "Specialty-Header" -> "specialty-header"
         [] OTHER -> "x-backend-no-commit"]

\* A variant that leaves out X-Backend-No-Commit alone.
ReplicationHeaders_KeepsEtag(names) ==
    SelectSeq([i \in DOMAIN names |-> LowerHeader[names[i]]],
              LAMBDA h : h # "x-backend-no-commit")

\* X-Backend-Replication-Headers: the names of the headers read, but for
\* the two that are not to be persisted.
ReplicationHeaders(names) ==
    SelectSeq([i \in DOMAIN names |-> LowerHeader[names[i]]],
              LAMBDA h : h \notin {"etag", "x-backend-no-commit"})

\* A variant that marks every sub-request as one of the legacy policy.
Subrequest_LegacyPolicy(r, sub) ==
    [method |-> sub.method,
     path |-> <<r.device, r.partition, sub.path>>,
     wire |-> sub.names,
     passed |-> {LowerHeader[sub.names[i]] : i \in DOMAIN sub.names},
     policy_index |-> "0",
     replication |-> "True",
     frag_index |-> IF r.frag_index = NoFragIndex THEN NoHeader
                    ELSE ToString(r.frag_index),
     replication_headers |-> ReplicationHeaders(sub.names)]

\* The request made of a sub-request for the object server: the path under
\* the session's device and partition, the header lines read (wire), the
\* headers of the request that come from them (passed) and the headers the
\* receiver adds.
Subrequest(r, sub) ==
    [method |-> sub.method,
     path |-> <<r.device, r.partition, sub.path>>,
     wire |-> sub.names,
     passed |-> {LowerHeader[sub.names[i]] : i \in DOMAIN sub.names},
     policy_index |-> ToString(r.policy),
     replication |-> "True",
     frag_index |-> IF r.frag_index = NoFragIndex THEN NoHeader
                    ELSE ToString(r.frag_index),
     replication_headers |-> ReplicationHeaders(sub.names)]

\* The body length that the handler is given.
Declared(sub) == IF sub.length < 0 THEN 0 ELSE sub.length

UnpackError == <<"not enough values to unpack (expected 2, got 1)">>

\* A variant that lets a PUT without Content-Length through to its handler.
ParseSubrequest_LenientPut(sub, unread) ==
    IF unread > 0 \/ sub.line # "ok" THEN UnpackError
    ELSE IF sub.headers = "none"
         THEN <<"Got no headers for", sub.method, sub.path>>
    ELSE IF sub.headers # "ok" THEN UnpackError
    ELSE IF sub.length = BadLength
         THEN <<"invalid literal for int() with base 10:", "a">>
    ELSE IF sub.method = "DELETE"
         THEN IF sub.length \notin {NoLength, 0}
              THEN <<sub.method, "subrequest with content-length",
                     sub.path>>
              ELSE <<>>
    ELSE IF sub.method = "POST" THEN <<>>
    ELSE IF sub.method = "PUT" THEN <<>>
    ELSE <<"Invalid subrequest method", sub.method>>

\* Reading and checking one sub-request up to its blank line: the message
\* of the exception raised, or <<>> when the sub-request can be dispatched.
\* `unread` is what is left in the stream of the body before it.
ParseSubrequest(sub, unread) ==
    IF unread > 0 \/ sub.line # "ok" THEN UnpackError
    ELSE IF sub.headers = "none"
         THEN <<"Got no headers for", sub.method, sub.path>>
    ELSE IF sub.headers # "ok" THEN UnpackError
    ELSE IF sub.length = BadLength
         THEN <<"invalid literal for int() with base 10:", "a">>
    ELSE IF sub.method = "DELETE"
         THEN IF sub.length \notin {NoLength, 0}
              THEN <<sub.method, "subrequest with content-length",
                     sub.path>>
              ELSE <<>>
    ELSE IF sub.method = "POST" THEN <<>>
    ELSE IF sub.method = "PUT"
         THEN IF sub.length = NoLength
              THEN <<"No content-length sent for", sub.method, sub.path>>
              ELSE <<>>
    ELSE <<"Invalid subrequest method", sub.method>>

\* What a handler does with a sub-request: it answers with a status after
\* reading the body but for the last `leaves` bytes of what is there; a
\* handler that answers 2xx has read the whole body.
HandlerOutcomes(sub, handlers) ==
    {h \in handlers :
        IsSuccess(h.status) =>
           (h.leaves = 0 /\ sub.present >= Declared(sub))}

HandlerRead(sub, h) ==
    LET there == Min(Declared(sub), sub.present)
    IN IF h.leaves > there THEN 0 ELSE there - h.leaves

Drain_Skipped(sub, read) == 0

\* for junk in subreq.environ['wsgi.input']: pass -- the number of bytes
\* thrown away after the handler returned.
Drain(sub, read) == Min(Declared(sub), sub.present) - read

\* A variant that passes on a sub-request only the first time its method
\* and path are seen.
Invoke_Coalesced(calls, sub, read) ==
    IF \E i \in 1..Len(calls) : /\ calls[i].method = sub.method
                                /\ calls[i].path = sub.path
    THEN calls
    ELSE calls \o <<[method |-> sub.method, path |-> sub.path,
                     length |-> sub.length,
                     present |-> sub.present, read |-> read,
                     consumed |-> read]>>

\* subreq.get_response(self.app): the handler of the method is called with
\* the path, the headers and the body of the sub-request; `calls` is the
\* record of the calls in the order they were made.
Invoke(calls, sub, read) ==
    calls \o <<[method |-> sub.method, path |-> sub.path,
                length |-> sub.length,
                present |-> sub.present, read |-> read,
                consumed |-> read]>>

EarlyTermination_Anonymous(sub) == <<"Early termination">>

EarlyTermination(sub) == <<"Early termination for", sub.method, sub.path>>

\* One sub-request: read and checked, dispatched to the handler of its
\* method, counted, and its body read to the end.
UpdatesSubrequest(s, in) ==
    /\ rcv[s].pc = "up_line"
    /\ rcv[s].dispatched < in.max_updates
    /\ \E sub \in in.subrequests :
         LET dir == DirOf(rcv[s])
             error == ParseSubrequest(sub, rcv[s].unread)
             r0 == [Read(rcv[s]) EXCEPT
                      !.request_lines = @ + 1,
                      !.sent = IF ParseSubrequest(sub, 0) = <<>>
                               THEN @ \o <<[method |-> sub.method,
                                            path |-> sub.path,
                                            length |-> sub.length]>>
                               ELSE @]
         IN IF error # <<>>
            THEN /\ Leave(s, r0, "exception", <<ExceptionLine(error)>>)
                 /\ disk' = disk
            ELSE \E h \in HandlerOutcomes(sub, in.handlers) :
                   LET ok == IsSuccess(h.status)
                       read == HandlerRead(sub, h)
                       drained == Drain(sub, read)
                       r == [r0 EXCEPT
                               !.dispatched = @ + 1,
                               !.resp_status = h.status,
                               !.successes = @ + (IF ok THEN 1 ELSE 0),
                               !.failures = @ + (IF ok THEN 0 ELSE 1),
                               !.mutations = @ + (IF ok THEN 1 ELSE 0),
                               !.requests =
                                  @ \o <<Subrequest(rcv[s], sub)>>,
                               !.calls = Invoke(@, sub, read)]
                   IN /\ disk' = [disk EXCEPT ![dir] =
                            IF ok
                            THEN Apply(sub.method, sub.ts,
                                       rcv[s].frag_index, @)
                            ELSE @]
                      /\ IF TooManyFailures(r.failures, r.successes)
                         THEN Leave(s, r, "exception",
                                    <<TooManyLine(r.failures, r.successes)>>)
                         ELSE IF /\ sub.present < Declared(sub)
                                 /\ read + drained = sub.present
                         THEN \* ChunkReadError: logged, nothing is yielded
                              Leave(s, [r EXCEPT
                                          !.calls[Len(r.calls)].consumed =
                                             read + drained,
                                          !.read_failed =
                                             EarlyTermination(sub)],
                                    "read_error", <<>>)
                         ELSE /\ rcv' = [rcv EXCEPT ![s] =
                                   [r EXCEPT
                                      !.calls[Len(r.calls)].consumed =
                                         read + drained,
                                      !.unread =
                                         Declared(sub) - read - drained]]
                              /\ UNCHANGED <<sem, locks>>
    /\ UNCHANGED <<account, conf>>

\* Mutant: the updates are announced before their failures are reported.
UpdatesEnd_MarkerFirst(s) ==
    /\ rcv[s].pc = "up_line"
    /\ LET r == Read(rcv[s]) IN
       IF r.failures > 0
       THEN Leave(s, r, "http_error",
                  <<UpdatesStartLine,
                    UpdatesFailedLine(r.failures, r.successes)>>)
       ELSE /\ rcv' = [rcv EXCEPT ![s] =
                 [r EXCEPT !.pc = "end",
                           !.body = @ \o <<UpdatesStartLine,
                                           UpdatesEndLine>>]]
            /\ UNCHANGED <<sem, locks>>
    /\ UNCHANGED <<account, conf, disk>>

\* :UPDATES: END, or no line at all.
UpdatesEnd(s) ==
    /\ rcv[s].pc = "up_line"
    /\ LET r == Read(rcv[s]) IN
       IF r.failures > 0
       THEN \* swob.HTTPInternalServerError, caught and reported in-band
            Leave(s, r, "http_error",
                  <<UpdatesFailedLine(r.failures, r.successes)>>)
       ELSE /\ rcv' = [rcv EXCEPT ![s] =
                 [r EXCEPT !.pc = "end",
                           !.body = @ \o <<UpdatesStartLine,
                                           UpdatesEndLine>>]]
            /\ UNCHANGED <<sem, locks>>
    /\ UNCHANGED <<account, conf, disk>>

UpdatesFail(s) ==
    /\ rcv[s].pc = "up_line"
    /\ \E kind \in FailKinds :
         IF kind = "timeout"
         THEN Leave(s, Read(rcv[s]), "timeout",
                    <<TimeoutLine("updates line")>>)
         ELSE Leave(s, Read(rcv[s]), "exception",
                    <<ExceptionLine(<<"bad subrequest">>)>>)
    /\ UNCHANGED <<account, conf, disk>>

(***************************************************************************)
(* Mutant: the connection is dropped also at the end of a session that ran *)
(* to its end.                                                             *)
(***************************************************************************)
Finish_HardDisconnect(s) ==
    /\ rcv[s].pc = "end"
    /\ rcv' = [rcv EXCEPT ![s] =
         [Released(s, rcv[s]) EXCEPT !.exit = "ok",
                                     !.socket_closed = @ + 1]]
    /\ sem' = ReleaseSemaphore(s)
    /\ locks' = ReleaseLock(s)
    /\ UNCHANGED <<account, conf, disk>>

(***************************************************************************)
(* Both phases ran to their end: the with block is left normally, the      *)
(* session ends without dropping the connection.                           *)
(***************************************************************************)
Finish(s) ==
    /\ rcv[s].pc = "end"
    /\ rcv' = [rcv EXCEPT ![s] =
         [Released(s, rcv[s]) EXCEPT !.exit = "ok", !.disconnect = FALSE]]
    /\ sem' = ReleaseSemaphore(s)
    /\ locks' = ReleaseLock(s)
    /\ UNCHANGED <<account, conf, disk>>

\* The steps of a constructed Receiver; `in` bounds what the peer sends.
Run(s, in) ==
    \/ Start(s)
    \/ TryAcquire(s)
    \/ AcquireLock(s)
    \/ MissingCheckStart(s)
    \/ MissingCheckRow(s, in)
    \/ MissingCheckEnd(s)
    \/ MissingCheckFail(s)
    \/ UpdatesStart(s)
    \/ UpdatesSubrequest(s, in)
    \/ UpdatesEnd(s)
    \/ UpdatesFail(s)
    \/ Finish(s)

(***************************************************************************)
(* Spec: sessions run concurrently in one process, each for a request      *)
(* without optional headers, the peer announcing its durable fragment and  *)
(* sending PUTs.                                                           *)
(***************************************************************************)
\* The object of the sub-requests, and handlers that read what they are
\* sent.
ObjectPath == "/a/c/o"

PlainHandlers == [status : HandlerStatuses, leaves : {0}]

PlainInputs ==
    [lines |-> {WireLine(r, Undecorated) :
                  r \in {q \in RemoteRows : q.ts_data = 1 /\ q.durable}},
     max_rows |-> MaxRows,
     commits |-> {"ok"},
     subrequests |-> {WellFormed("PUT", ObjectPath, MaxTs, 1)},
     handlers |-> PlainHandlers,
     max_updates |-> MaxUpdates]

Next ==
    \E s \in Sessions :
       \/ \E r \in PlainRequests : Construct(s, r)
       \/ Run(s, PlainInputs)

Spec == Init /\ [][Next]_vars

(***************************************************************************)
(* SpecSingle: one session for any request and any input; the permits and  *)
(* locks other sessions of the process hold are part of the initial state. *)
(***************************************************************************)
AllInputs ==
    [lines |-> {WireLine(r, Undecorated) : r \in RemoteRows},
     max_rows |-> MaxRows,
     commits |-> {"ok", "raise"},
     subrequests |-> {WellFormed(m, ObjectPath, ts,
                                 IF m = "PUT" THEN 1 ELSE NoLength) :
                        m \in Methods, ts \in 1..MaxTs},
     handlers |-> PlainHandlers,
     max_updates |-> MaxUpdates]

BackgroundLock ==
    [device |-> "sda1", policy |-> 0, partition |-> "1",
     holder |-> Background]

InitSingle ==
    /\ conf = [replication_concurrency |-> 1,
               replication_concurrency_per_device |-> 0]
    /\ sem \in {0, 1}
    /\ locks \in {{}, {BackgroundLock}}
    /\ disk = [d \in Dirs |-> NonDurableFrag]
    /\ rcv = [s \in Sessions |-> NewReceiver]
    /\ account = NoAccount

NextSingle ==
    \/ \E r \in AllRequests : Construct(1, r)
    \/ Run(1, AllInputs)

SpecSingle == InitSingle /\ [][NextSingle]_vars

(***************************************************************************)
(* SpecMissingCheck: one session on /sda1/1, with or without a frag index, *)
(* against every local record of ObjectHash; the peer announces rows of    *)
(* both objects in every wire form, then sends PUTs.                       *)
(***************************************************************************)
CheckRequests ==
    {r \in AllRequests : /\ r.path = <<"sda1", "1">>
                         /\ r.policy_hdr = NoHeader
                         /\ r.frag_hdr \in {NoHeader, "2", "7"}
                         /\ r.node_hdr = NoHeader}

\* What the peer announces: the object in every state it can have there, and
\* an object the receiver has never seen.
CheckRows ==
    {r \in Rows(MaxCheckTs) :
        \/ r.object_hash = ObjectHash
        \/ r.ts_meta = 1 /\ r.durable}

CheckInputs ==
    [lines |-> {WireLine(r, Undecorated) : r \in CheckRows},
     max_rows |-> MaxCheckRows,
     commits |-> CommitOutcomes,
     subrequests |-> {WellFormed("PUT", ObjectPath, MaxCheckTs, 1)},
     handlers |-> PlainHandlers,
     max_updates |-> MaxUpdates]

InitMissingCheck ==
    /\ conf = [replication_concurrency |-> 1,
               replication_concurrency_per_device |-> 0]
    /\ sem = 1
    /\ locks = {}
    /\ disk \in {[d \in Dirs |-> l] : l \in LocalRecords(MaxCheckTs)}
    /\ rcv = [s \in Sessions |-> NewReceiver]
    /\ account = NoAccount

NextMissingCheck ==
    \/ \E r \in CheckRequests : Construct(1, r)
    \/ Run(1, CheckInputs)

SpecMissingCheck == InitMissingCheck /\ [][NextMissingCheck]_vars

(***************************************************************************)
(* SpecWire: the same session reading rows in every wire form a sender     *)
(* may use.                                                                *)
(***************************************************************************)
WireInputs ==
    [lines |-> {WireLine(r, deco) : r \in CheckRows, deco \in Decorations},
     max_rows |-> MaxWireRows,
     commits |-> CommitOutcomes,
     subrequests |-> {WellFormed("PUT", ObjectPath, MaxCheckTs, 1)},
     handlers |-> PlainHandlers,
     max_updates |-> MaxUpdates]

NextWire ==
    \/ \E r \in CheckRequests : Construct(1, r)
    \/ Run(1, WireInputs)

SpecWire == InitMissingCheck /\ [][NextWire]_vars

(***************************************************************************)
(* The updates phase on its own: one session on /sda1/1 whose peer writes  *)
(* sub-requests of every shape, well formed or not, to handlers that may   *)
(* fail and may leave part of a body unread.                               *)
(***************************************************************************)
MaxStream == 5
MaxBody == 2

OtherPath == "/a/c/o2"

\* A sub-request with one thing wrong with it.
Faulty(sub, field, value) == [sub EXCEPT ![field] = value]

\* The header lines of a PUT and of a POST, in the order they are sent.
PutHeaders ==
    <<"Content-Length", "Etag", "X-Timestamp", "X-Object-Meta-Test1",
      "Specialty-Header", "X-Backend-No-Commit">>

PostHeaders == <<"X-Timestamp", "X-Object-Meta-Test1">>

GoodSubrequests ==
    {Faulty(WellFormed("PUT", ObjectPath, MaxTs, MaxBody),
            "names", PutHeaders),
     WellFormed("DELETE", OtherPath, MaxTs, NoLength),
     Faulty(WellFormed("POST", ObjectPath, MaxTs, NoLength),
            "names", PostHeaders)}

\* A PUT whose stream ends before its body does.
ShortSubrequests ==
    {Faulty(WellFormed("PUT", ObjectPath, MaxTs, MaxBody), "present", n) :
        n \in 0..(MaxBody - 1)}

BadSubrequests ==
    LET put == WellFormed("PUT", ObjectPath, MaxTs, MaxBody)
        delete == WellFormed("DELETE", OtherPath, MaxTs, NoLength)
    IN {Faulty(delete, "line", "bad"),
        Faulty(delete, "headers", "none"),
        Faulty(delete, "headers", "bad"),
        Faulty(put, "length", BadLength),
        WellFormed("DELETE", OtherPath, MaxTs, 1),
        Faulty(put, "length", NoLength),
        Faulty(delete, "method", "BONK")}

\* Handlers that read a body to its end, but for its last byte, or not at
\* all.
UpdateHandlers == [status : {201, 204, 500}, leaves : {0, 1, MaxBody}]

UpdateInputs ==
    [lines |-> {WireLine(r, Undecorated) :
                  r \in {x \in CheckRows : x.object_hash = OtherHash}},
     max_rows |-> 1,
     commits |-> {"ok"},
     subrequests |-> GoodSubrequests \cup ShortSubrequests
                        \cup BadSubrequests,
     handlers |-> UpdateHandlers,
     max_updates |-> MaxStream]

InitUpdates ==
    /\ conf = [replication_concurrency |-> 1,
               replication_concurrency_per_device |-> 0]
    /\ sem = 1
    /\ locks = {}
    /\ disk = [d \in Dirs |-> NonDurableFrag]
    /\ rcv = [s \in Sessions |-> NewReceiver]
    /\ account = NoAccount

NextUpdates ==
    \/ \E r \in {q \in CheckRequests : q.frag_hdr = NoHeader} :
         Construct(1, r)
    \/ Run(1, UpdateInputs)

SpecUpdates == InitUpdates /\ [][NextUpdates]_vars

(***************************************************************************)
(* The row encoding on its own: a row with timestamps of every offset is   *)
(* written by the sender's encode_missing and read back by decode_missing. *)
(***************************************************************************)
MaxOffset == 1

\* The order of timestamps: by time, then by offset.
NotAfter(a, b) ==
    \/ Raw(a) < Raw(b)
    \/ Raw(a) = Raw(b) /\ OffsetOf(a) <= OffsetOf(b)

CodecRows ==
    LET timestamps == {MakeTimestamp(raw, offset) :
                          raw \in 1..MaxTs, offset \in 0..MaxOffset}
    IN {r \in [object_hash : ObjectHashes, ts_data : timestamps,
                ts_meta : timestamps, ts_ctype : timestamps,
                durable : BOOLEAN] :
           NotAfter(r.ts_data, r.ts_ctype)
              /\ NotAfter(r.ts_ctype, r.ts_meta)}

\* The ways a sender spells "not durable".
FalseWords == {"no", "false", "False"}

Spell(line, word) ==
    [line EXCEPT !.rest =
        [i \in DOMAIN line.rest |->
            [j \in DOMAIN line.rest[i] |->
                IF line.rest[i][j][1] = "durable"
                THEN <<"durable", word>>
                ELSE line.rest[i][j]]]]

InitCodec ==
    /\ conf = [replication_concurrency |-> 1,
               replication_concurrency_per_device |-> 0]
    /\ sem = 1
    /\ locks = {}
    /\ disk = [d \in Dirs |-> NoRecord]
    /\ \E x \in CodecRows :
         rcv = [s \in Sessions |->
                  IF s = 1
                  THEN [NewReceiver EXCEPT !.pc = "row", !.remote = x]
                  ELSE NewReceiver]
    /\ account = NoAccount

\* ssync_sender.encode_missing
EncodeMissing(s) ==
    /\ rcv[s].pc = "row"
    /\ \E word \in FalseWords :
         rcv' = [rcv EXCEPT ![s] =
            [@ EXCEPT !.pc = "line",
                      !.line = Spell(WireLine(rcv[s].remote,
                                              Undecorated), word)]]
    /\ UNCHANGED <<account, conf, sem, locks, disk>>

\* ssync_receiver.decode_missing
DecodeLine(s) ==
    /\ rcv[s].pc = "line"
    /\ rcv' = [rcv EXCEPT ![s] =
          [@ EXCEPT !.pc = "decoded",
                    !.remote = DecodeMissing(rcv[s].line)]]
    /\ UNCHANGED <<account, conf, sem, locks, disk>>

NextCodec == EncodeMissing(1) \/ DecodeLine(1)

SpecCodec == InitCodec /\ [][NextCodec]_vars

(***************************************************************************)
(* SpecAccount: the account server and the requests made on one account,   *)
(* /sda1/p/a, one after the other.                                         *)
(***************************************************************************)
MaxRequests == 5

Containers == {"c1"}

\* The response to a request on the account or on one of its containers.
Response(method, target, status) ==
    [method |-> method, target |-> target, status |-> status, body |-> "",
     account_status |-> NoHeader]

\* A variant that marks every such response.
DeletedResponse_AlwaysMarked(db, method, status, body) ==
    [method |-> method, target |-> "account", status |-> status,
     body |-> body, account_status |-> "Deleted"]

\* AccountController._deleted_response: the account does not exist or is
\* marked deleted; only in the second case does the response say so.
DeletedResponse(db, method, status, body) ==
    [method |-> method, target |-> "account", status |-> status,
     body |-> body,
     account_status |-> IF db.exists /\ db.deleted THEN "Deleted"
                        ELSE NoHeader]

Answer(db, response) ==
    account' = [db EXCEPT !.responses = Append(account.responses, response)]

\* AccountController.PUT of the account
AccountPUT(ts) ==
    /\ Len(account.responses) < MaxRequests
    /\ IF ~account.exists
       THEN Answer([account EXCEPT !.exists = TRUE, !.put_timestamp = ts],
                   Response("PUT", "account", 201))
       ELSE IF account.deleted
       THEN Answer(account,
                   DeletedResponse(account, "PUT", 403, "Recently deleted"))
       ELSE Answer([account EXCEPT
                      !.put_timestamp = IF ts > @ THEN ts ELSE @],
                   Response("PUT", "account", 202))
    /\ UNCHANGED <<conf, sem, locks, disk, rcv>>

\* AccountController.PUT of a container of the account
ContainerPUT(c) ==
    /\ Len(account.responses) < MaxRequests
    /\ ~account.deleted
    /\ c \notin account.containers
    /\ IF ~account.exists
       THEN Answer(account, Response("PUT", "container", 404))
       ELSE Answer([account EXCEPT !.containers = @ \cup {c}],
                   Response("PUT", "container", 201))
    /\ UNCHANGED <<conf, sem, locks, disk, rcv>>

\* AccountController.DELETE
AccountDELETE(ts) ==
    /\ Len(account.responses) < MaxRequests
    /\ IF ~account.exists \/ account.deleted
       THEN Answer(account, DeletedResponse(account, "DELETE", 404, ""))
       ELSE LET db == [account EXCEPT !.deleted = TRUE,
                                      !.delete_timestamp = ts]
            IN Answer(db, DeletedResponse(db, "DELETE", 204, ""))
    /\ UNCHANGED <<conf, sem, locks, disk, rcv>>

\* AccountController.POST
AccountPOST ==
    /\ Len(account.responses) < MaxRequests
    /\ IF ~account.exists \/ account.deleted
       THEN Answer(account, DeletedResponse(account, "POST", 404, ""))
       ELSE Answer(account, Response("POST", "account", 204))
    /\ UNCHANGED <<conf, sem, locks, disk, rcv>>

\* AccountController.HEAD
AccountHEAD ==
    /\ Len(account.responses) < MaxRequests
    /\ IF ~account.exists \/ account.deleted
       THEN Answer(account, DeletedResponse(account, "HEAD", 404, ""))
       ELSE Answer(account, Response("HEAD", "account", 204))
    /\ UNCHANGED <<conf, sem, locks, disk, rcv>>

InitAccount ==
    /\ conf = [replication_concurrency |-> 1,
               replication_concurrency_per_device |-> 0]
    /\ sem = 1
    /\ locks = {}
    /\ disk = [d \in Dirs |-> NoRecord]
    /\ rcv = [s \in Sessions |-> NewReceiver]
    /\ account = NoAccount

NextAccount ==
    \/ \E ts \in 1..MaxTs : AccountPUT(ts)
    \/ \E c \in Containers : ContainerPUT(c)
    \/ \E ts \in 1..MaxTs : AccountDELETE(ts)
    \/ AccountPOST
    \/ AccountHEAD

SpecAccount == InitAccount /\ [][NextAccount]_vars

(***************************************************************************)
(* Properties.                                                             *)
(***************************************************************************)
InPhases(s) ==
    rcv[s].pc \in {"mc_start", "mc_line", "up_start", "up_line", "end"}

Ended(s) == rcv[s].pc \in {"done", "http_error"}

SamePartition(s, t) ==
    /\ rcv[s].device = rcv[t].device
    /\ rcv[s].partition = rcv[t].partition

\* C1: per-partition mutual exclusion.  At most one replication lock is
\* held for a (device, partition) at any instant, and two sessions on the
\* same (device, partition) are never both in their missing-check/updates
\* phases.
C1_MutualExclusion ==
    /\ \A l1, l2 \in locks :
          (l1.device = l2.device /\ l1.partition = l2.partition) => l1 = l2
    /\ \A s, t \in Sessions :
          (s # t /\ InPhases(s) /\ InPhases(t)) => ~SamePartition(s, t)

\* Two sessions met on one partition: one runs its phases, the other was
\* refused the lock.
C1_Witness ==
    \E s, t \in Sessions :
       /\ s # t
       /\ SamePartition(s, t)
       /\ InPhases(s)
       /\ rcv[t].exit = "lock_timeout"

\* C2: the sessions that acquired the replication semaphore and have not
\* released it are never more than replication_concurrency.
C2_SemaphoreBound ==
    /\ Cardinality({s \in Sessions : rcv[s].holds_sem})
          <= conf.replication_concurrency
    /\ sem = conf.replication_concurrency
               - Cardinality({s \in Sessions : rcv[s].holds_sem})

\* Every permit is taken and a further session was refused.
C2_Witness ==
    /\ Cardinality({s \in Sessions : rcv[s].holds_sem})
          = conf.replication_concurrency
    /\ \E s \in Sessions : rcv[s].exit = "semaphore"

HasMarker(body) == \E i \in DOMAIN body : body[i] \in PhaseMarkers

\* The step in which session s finds the semaphore exhausted.
Refusal(s) == rcv[s].pc = "semaphore" /\ sem = 0 /\ rcv'[s] # rcv[s]

\* C3 as stated: a session that finds the semaphore exhausted answers with
\* the HTTP status 503 and ends without a phase marker, a lock request or a
\* dispatched sub-request.
C3_Original ==
    [][\A s \in Sessions : Refusal(s) =>
          /\ rcv'[s].pc = "done"
          /\ rcv'[s].status = 503
          /\ ~HasMarker(rcv'[s].body)
          /\ rcv'[s].lock_requests = 0
          /\ rcv'[s].dispatched = 0]_vars

\* C3, amended: a session that finds the semaphore exhausted ends in that
\* very step, without waiting; its response has the HTTP status 200 and
\* carries, after the leading blank line, the single line
\* ":ERROR: 503 ... Service Unavailable ..."; no phase marker is emitted,
\* nothing is read from the request body, the partition lock is never
\* requested, nothing is dispatched and nothing on disk changes.
C3_SemaphoreRefusal ==
    [][\A s \in Sessions : Refusal(s) =>
          /\ rcv'[s].pc = "done"
          /\ rcv'[s].status = 200
          /\ rcv'[s].body =
                << <<"">>, <<":ERROR:", "503", "Service Unavailable">> >>
          /\ ~HasMarker(rcv'[s].body)
          /\ rcv'[s].sem_calls = 1
          /\ rcv'[s].reads = 0
          /\ rcv'[s].lock_requests = 0
          /\ rcv'[s].dispatched = 0
          /\ rcv'[s].mutations = 0
          /\ locks' = locks
          /\ disk' = disk]_vars

\* A session was refused while the permits were with other sessions.
C3_Witness ==
    \E s \in Sessions :
       /\ rcv[s].exit = "semaphore"
       /\ rcv[s].status = 200
       /\ rcv[s].sem_calls = 1
       /\ \E t \in Sessions \ {s} : rcv[t].holds_sem

\* C4: every session releases what it acquired exactly once, whichever way
\* it ends: an ended session holds neither the semaphore nor a lock and has
\* released each exactly as often as it acquired it (at most once); the
\* permits and locks outstanding are exactly those of the sessions still
\* running, so that a later session can acquire them.
C4_ReleasedOnce ==
    /\ \A s \in Sessions :
          /\ rcv[s].sem_acquires <= 1
          /\ rcv[s].lock_acquires <= 1
          /\ rcv[s].sem_releases
                = rcv[s].sem_acquires - (IF rcv[s].holds_sem THEN 1 ELSE 0)
          /\ rcv[s].lock_releases
                = rcv[s].lock_acquires - Cardinality(HeldBy(s))
          /\ Ended(s) => (~rcv[s].holds_sem /\ HeldBy(s) = {})
    /\ sem = conf.replication_concurrency
               - Cardinality({s \in Sessions : rcv[s].holds_sem})
    /\ locks = UNION {HeldBy(s) : s \in Sessions}
    /\ (\A s \in Sessions : Ended(s) \/ rcv[s].pc = "new") =>
          (sem = conf.replication_concurrency /\ locks = {})

\* A session ended by an error after it had taken the lock, and a later
\* session took the lock of the same partition.
C4_Witness ==
    \E s, t \in Sessions :
       /\ s # t
       /\ SamePartition(s, t)
       /\ rcv[s].pc = "done"
       /\ rcv[s].exit \in {"timeout", "exception", "disconnect"}
       /\ rcv[s].sem_releases = 1
       /\ rcv[s].lock_releases = 1
       /\ conf.replication_concurrency = 1
       /\ InPhases(t)

\* The lock session s would hold for partition directory d.
LockOn(d, s) ==
    [device |-> d.device, policy |-> d.policy, partition |-> d.partition,
     holder |-> s]

\* C5: a partition directory changes on disk only in a step of a session
\* working on that directory (its own device, policy and partition) that
\* holds the directory's replication lock; the lock is requested only by a
\* session holding the semaphore, and the lock a session obtains is the one
\* of its own device, policy and partition.
C5_MutationUnderLock ==
    [][/\ \A d \in Dirs : disk'[d] # disk[d] =>
             \E s \in Sessions :
                /\ d = DirOf(rcv[s])
                /\ LockOn(d, s) \in locks
                /\ rcv[s].holds_sem
                /\ rcv'[s].mutations = rcv[s].mutations + 1
       /\ \A s \in Sessions :
             /\ rcv'[s].lock_requests # rcv[s].lock_requests =>
                   (rcv[s].holds_sem /\ rcv[s].sem_acquires = 1)
             /\ rcv'[s].lock_acquires # rcv[s].lock_acquires =>
                   locks' = locks \cup {LockOn(DirOf(rcv[s]), s)}]_vars

\* A session of a non-default policy promoted its fragment in the
\* missing-check and had a sub-request applied in the updates.
C5_Witness ==
    /\ rcv[1].policy = 1
    /\ rcv[1].mutations = 2
    /\ rcv[1].pc = "end"
    /\ disk[DirOf(rcv[1])].writes = 2

\* The locks held on the device of session s.
OnDevice(s) == {l \in locks : l.device = rcv[s].device}

\* The locks held on the partition of session s.
OnPartition(s) == {l \in OnDevice(s) : l.partition = rcv[s].partition}

\* The step in which session s asks for its partition lock.
LockRequest(s) == rcv[s].pc = "lock" /\ rcv'[s] # rcv[s]

C7_LockTimeout ==
    [][\A s \in Sessions : (rcv[s].pc = "lock" /\ rcv'[s].pc = "done") =>
          /\ rcv'[s].exit = "lock_timeout"
          /\ rcv'[s].status = 200
          /\ \E path \in {<<rcv[s].device, "objects", rcv[s].partition,
                           ".lock-replication">>,
                         <<rcv[s].device, ".lock-replication">>} :
                rcv'[s].body =
                   << <<"">>, <<":ERROR:", "0", "seconds:">> \o path >>
          /\ ~HasMarker(rcv'[s].body)
          /\ rcv'[s].reads = 0
          /\ rcv'[s].dispatched = 0
          /\ rcv'[s].mutations = 0
          /\ rcv'[s].lock_acquires = 0
          /\ locks' = locks
          /\ disk' = disk
          /\ \A t \in Sessions \ {s} : rcv'[t] = rcv[t]]_vars

\* A session timed out on the lock of a partition whose holder went on to
\* complete both phases.
C7_Witness ==
    \E s, t \in Sessions :
       /\ s # t
       /\ SamePartition(s, t)
       /\ rcv[s].exit = "lock_timeout"
       /\ rcv[s].lock_requests = 1
       /\ rcv[t].exit = "ok"
       /\ conf.replication_concurrency_per_device = 0

(***************************************************************************)
(* What a request asks for, read off the request itself.                   *)
(***************************************************************************)
BadPath(q) == Len(q.path) # 2 \/ \E i \in DOMAIN q.path : q.path[i] = ""

UnknownPolicy(q) == q.policy_hdr \notin {NoHeader, "0", "1"}

UnparseableFragIndex(q) == q.frag_hdr = "None"

NotMounted(q) == Len(q.path) >= 1 /\ q.path[1] # "sda1"

\* The statuses of the initialization failures request q runs into.
FailureCodes(q) ==
    (IF BadPath(q) THEN {400} ELSE {})
      \cup (IF UnknownPolicy(q) THEN {503} ELSE {})
      \cup (IF UnparseableFragIndex(q) THEN {400} ELSE {})
      \cup (IF NotMounted(q) THEN {507} ELSE {})

\* C8: a request with an invalid path, an unknown policy, an unparseable
\* frag index or an unmounted device is answered by an HTTP error, 400, 503,
\* 400 and 507 respectively: the response carries the error alone, without
\* the leading blank line, a phase marker or an in-band error line; the
\* missing-check is never entered, nothing is read from the body, and
\* neither the semaphore nor the lock is touched.  A request with none of
\* these failures is not answered that way.
C8_InitFailure ==
    \A s \in Sessions : rcv[s].pc # "new" =>
       IF FailureCodes(rcv[s].request) = {}
       THEN rcv[s].pc # "http_error" /\ rcv[s].status \in {0, 200}
       ELSE /\ rcv[s].pc = "http_error"
            /\ rcv[s].status \in FailureCodes(rcv[s].request)
            /\ Len(rcv[s].body) = 1
            /\ ~HasMarker(rcv[s].body)
            /\ \A i \in DOMAIN rcv[s].body :
                  rcv[s].body[i] # <<"">> /\ ~IsErrorLine(rcv[s].body[i])
            /\ rcv[s].reads = 0
            /\ rcv[s].rows = 0
            /\ rcv[s].dispatched = 0
            /\ rcv[s].sem_calls = 0
            /\ rcv[s].lock_requests = 0
            /\ rcv[s].mutations = 0

\* A request for a device that is not mounted, with nothing else wrong, was
\* answered 507.
C8_Witness ==
    \E s \in Sessions :
       /\ rcv[s].pc = "http_error"
       /\ rcv[s].status = 507
       /\ FailureCodes(rcv[s].request) = {507}
       /\ rcv[s].request.policy_hdr = "1"

\* C9: a request with an invalid path is answered 400 'Invalid path' and
\* the replication semaphore is neither acquired nor released for it; a
\* request with a well-formed path that passes initialization makes one
\* non-blocking attempt to acquire the semaphore and, having acquired it,
\* has released it once when the session has ended.
C9_InvalidPathLeavesSemaphore ==
    \A s \in Sessions : rcv[s].pc # "new" =>
       IF BadPath(rcv[s].request)
       THEN /\ rcv[s].pc = "http_error"
            /\ rcv[s].status = 400
            /\ rcv[s].body = << <<"Invalid path:">> \o rcv[s].request.path >>
            /\ rcv[s].sem_calls = 0
            /\ rcv[s].sem_acquires = 0
            /\ rcv[s].sem_releases = 0
            /\ ~rcv[s].holds_sem
       ELSE /\ rcv[s].pc = "done" =>
                 /\ rcv[s].sem_calls = 1
                 /\ rcv[s].sem_releases = rcv[s].sem_acquires
                 /\ (rcv[s].exit # "semaphore") => rcv[s].sem_releases = 1
            /\ rcv[s].sem_calls <= 1

\* Of two sessions, one was answered 400 for its path and left the
\* semaphore alone, the other ran to the end having acquired and released
\* the semaphore once.
C9_Witness ==
    \E s, t \in Sessions :
       /\ BadPath(rcv[s].request)
       /\ rcv[s].status = 400
       /\ rcv[s].sem_calls = 0
       /\ rcv[t].exit = "ok"
       /\ rcv[t].sem_acquires = 1
       /\ rcv[t].sem_releases = 1
       /\ sem = conf.replication_concurrency

\* C10: the fragment index of a session comes from the header
\* X-Backend-Ssync-Frag-Index alone.  Present and an integer, it is the
\* session's frag_index whatever X-Backend-Ssync-Node-Index says; present
\* and not an integer ('None'), the request fails with 400; absent, the
\* frag_index is None even if the node index header is there.
C10_FragIndexHeaderAlone ==
    \A s \in Sessions :
       LET q == rcv[s].request IN
       (rcv[s].pc # "new" /\ ~BadPath(q) /\ ~UnknownPolicy(q)
          /\ ~NotMounted(q)) =>
          /\ q.frag_hdr = "2" =>
                (rcv[s].frag_index = 2 /\ rcv[s].pc # "http_error")
          /\ q.frag_hdr = "7" =>
                (rcv[s].frag_index = 7 /\ rcv[s].pc # "http_error")
          /\ q.frag_hdr = "None" =>
                /\ rcv[s].pc = "http_error"
                /\ rcv[s].status = 400
                /\ rcv[s].body =
                      << <<"Invalid X-Backend-Ssync-Frag-Index", "None">> >>
          /\ q.frag_hdr = NoHeader =>
                (rcv[s].frag_index = NoFragIndex /\ rcv[s].pc # "http_error")

\* A session whose two headers disagree took the frag index header's value
\* and went on to answer the missing-check.
C10_Witness ==
    \E s \in Sessions :
       /\ rcv[s].request.frag_hdr = "7"
       /\ rcv[s].request.node_hdr = "6"
       /\ rcv[s].frag_index = 7
       /\ rcv[s].pc = "up_start"

(***************************************************************************)
(* The missing-check and the shape of the response (C11..C20).             *)
(***************************************************************************)
ReplyCodes == {"dm", "d", "m"}

\* The lines of the response body, as the peer reads them.
BodyLines(s) == SelectSeq(rcv[s].body, LAMBDA l : l # BlankLine)

\* The last n lines of a sequence.
LastLines(seq, n) == SubSeq(seq, Len(seq) - n + 1, Len(seq))

RECURSIVE IsSubseq(_, _)
IsSubseq(a, b) ==
    IF a = <<>> THEN TRUE
    ELSE IF b = <<>> THEN FALSE
    ELSE IF Head(a) = Head(b) THEN IsSubseq(Tail(a), Tail(b))
    ELSE IsSubseq(a, Tail(b))

\* The session completed both phases without a failed sub-request.
Completed(s) ==
    /\ rcv[s].pc = "end" \/ rcv[s].exit = "ok"
    /\ rcv[s].failures = 0

\* The missing-check step of session s: one row is read and answered.
RowStep(s) ==
    /\ rcv[s].pc = "mc_line"
    /\ rcv'[s].pc = "mc_line"
    /\ rcv'[s].rows = rcv[s].rows + 1

\* The reply lines of the row that the step answered.
RowReply(s) == SubSeq(rcv'[s].wanted, Len(rcv[s].wanted) + 1,
                      Len(rcv'[s].wanted))

\* The local record that the row of the step is about, before the step.
RowRecord(s) == RecordOf(DirOf(rcv[s]), rcv'[s].remote.object_hash)

\* The record as the session can open it: a tombstone, or durable data in
\* the session's fragment (any fragment for a session without frag index).
Openable(s, l) ==
    /\ l.ts_data > 0
    /\ \/ l.deleted
       \/ /\ l.durable
          /\ rcv[s].frag_index \in {NoFragIndex, l.frag_index}

\* C11: a session that completes both phases with every sub-request
\* succeeding answers 200 with, in this order and each once,
\* :MISSING_CHECK: START, at most one reply line per announced row in the
\* order of the rows, :MISSING_CHECK: END, :UPDATES: START, :UPDATES: END;
\* with no row announced the body is exactly the four framing lines.
C11_ResponseOrder ==
    \A s \in Sessions :
       Completed(s) =>
          LET lines == BodyLines(s)
              n == Len(lines)
              replies == SubSeq(lines, 2, n - 3)
          IN /\ rcv[s].status = 200
             /\ n >= 4
             /\ lines[1] = MissingCheckStartLine
             /\ LastLines(lines, 3) = <<MissingCheckEndLine, UpdatesStartLine,
                                    UpdatesEndLine>>
             /\ \A m \in PhaseMarkers :
                   Cardinality({i \in 1..n : lines[i] = m}) = 1
             /\ \A i \in DOMAIN replies :
                   /\ Len(replies[i]) = 2
                   /\ replies[i][1] \in ObjectHashes
                   /\ replies[i][2] \in ReplyCodes
             /\ IsSubseq([i \in DOMAIN replies |-> replies[i][1]],
                         rcv[s].announced)
             /\ rcv[s].rows = 0 => n = 4

\* A session completed after answering two rows of different objects, both
\* in the order they were announced, and after a successful PUT.
C11_Witness ==
    \E s \in Sessions :
       /\ Completed(s)
       /\ rcv[s].announced = <<OtherHash, ObjectHash>>
       /\ rcv[s].wanted = <<<<OtherHash, "dm">>, <<ObjectHash, "d">>>>
       /\ rcv[s].successes > 0

\* The session got past initialization: the response has started.
Responding(s) == rcv[s].pc \notin {"new", "init", "http_error"}

\* The ways a started session ends on an error, with the code it reports.
ErrorExits ==
    [semaphore |-> "503", lock_timeout |-> "0", timeout |-> "408",
     exception |-> "0", http_error |-> "500"]

ErrorLinesOf(body) == {i \in DOMAIN body : IsErrorLine(body[i])}

\* C12: once initialization has succeeded the HTTP status is 200 whatever
\* the outcome; an error of the session (refusal, lock timeout, read
\* timeout, exception, failed updates) is the last line of the body, an
\* :ERROR: line with its code, and no other line is an :ERROR: line; a
\* session that ends without error has none.  A status other than 200 is
\* the answer of a request that failed initialization, before anything was
\* read.
C12_ErrorsInBand ==
    \A s \in Sessions :
       LET r == rcv[s]
           n == Len(r.body)
       IN /\ Responding(s) => r.status = 200
          /\ r.status \notin {0, 200} =>
                (r.pc = "http_error" /\ r.reads = 0 /\ r.sem_calls = 0)
          /\ r.exit \in DOMAIN ErrorExits =>
                /\ r.status = 200
                /\ ErrorLinesOf(r.body) = {n}
                /\ r.body[n][2] = ErrorExits[r.exit]
          /\ (Responding(s) /\ r.exit \notin DOMAIN ErrorExits) =>
                ErrorLinesOf(r.body) = {}

\* A session whose updates phase ended with failed sub-requests reported
\* them in-band, after the missing-check markers, with status 200.
C12_Witness ==
    \E s \in Sessions :
       /\ rcv[s].exit = "http_error"
       /\ rcv[s].failures > 0
       /\ rcv[s].status = 200
       /\ \E i \in DOMAIN rcv[s].body :
             rcv[s].body[i] = MissingCheckEndLine

\* C13: a row about an object without any local record is answered with
\* exactly '<hash> dm', whatever its timestamps and durability, and nothing
\* is written.
C13_MissingObject ==
    [][\A s \in Sessions :
          (RowStep(s) /\ RowRecord(s).ts_data = 0) =>
             /\ RowReply(s) = <<<<rcv'[s].line.hash, "dm">>>>
             /\ rcv'[s].remote.object_hash = rcv'[s].line.hash
             /\ disk' = disk]_vars

\* A receiver without the object was offered it non-durable with newer
\* metadata and asked for both.
C13_Witness ==
    \E s \in Sessions :
       /\ rcv[s].pc = "mc_line"
       /\ rcv[s].rows = 1
       /\ rcv[s].remote.object_hash = ObjectHash
       /\ ~rcv[s].remote.durable
       /\ rcv[s].remote.ts_meta > rcv[s].remote.ts_data
       /\ disk[DirOf(rcv[s])].ts_data = 0
       /\ rcv[s].wanted = <<<<ObjectHash, "dm">>>>

\* The record is that of the session's fragment: durable data the session
\* can open, or a non-durable fragment of the session's frag index.
SessionRecord(s, l) ==
    /\ l.ts_data > 0
    /\ ~l.deleted
    /\ IF l.durable
       THEN rcv[s].frag_index \in {NoFragIndex, l.frag_index}
       ELSE rcv[s].frag_index = l.frag_index

\* The row announces exactly what the record holds.
InSync(l, remote) ==
    /\ l.ts_data = remote.ts_data
    /\ l.ts_meta = remote.ts_meta
    /\ l.ts_ctype = remote.ts_ctype
    /\ l.durable = remote.durable

C15_ForwardCompatible ==
    [][\A s \in Sessions :
          RowStep(s) =>
             \A r \in CheckRows, deco \in Decorations :
                rcv'[s].line = WireLine(r, deco) =>
                   LET plain == DecodeMissing(WireLine(r, Undecorated))
                       c == CheckLocal(rcv[s].frag_index, RowRecord(s),
                                       plain, rcv'[s].commit)
                   IN /\ rcv'[s].remote = r
                      /\ rcv'[s].remote = plain
                      /\ RowReply(s) = EncodeWanted(plain, c.local)
                      /\ disk' = IF c.disk # RowRecord(s)
                                 THEN [disk EXCEPT ![DirOf(rcv[s])] = c.disk]
                                 ELSE disk]_vars

\* A non-durable row with newer content-type and metadata arrived with its
\* subparts reversed among unknown ones and followed by further tokens; it
\* was decoded to the row sent, and the receiver, holding older durable
\* data, asked for both.
C15_Witness ==
    \E s \in Sessions :
       LET r == [object_hash |-> ObjectHash, ts_data |-> 2, ts_meta |-> 3,
                 ts_ctype |-> 3, durable |-> FALSE]
       IN /\ rcv[s].pc = "mc_line"
          /\ rcv[s].line = WireLine(r, [reversed |-> TRUE, unknown |-> TRUE,
                                        extras |-> TRUE])
          /\ rcv[s].line.rest =
                << <<<<"c", "12345">>, <<"durable", "no">>, <<"t", "1">>,
                     <<"m", "1">>, <<"junk">>>>,
                   <<<<"future">>>>, <<<<"parts">>>> >>
          /\ rcv[s].remote = r
          /\ disk[DirOf(rcv[s])].ts_data = 1
          /\ disk[DirOf(rcv[s])].durable
          /\ rcv[s].wanted = <<<<ObjectHash, "dm">>>>

\* The record holds something older than the row announces.
LocalOlder(l, remote) == l.ts_data > 0 /\ l.ts_data < remote.ts_data

\* C16 as stated: whenever the local ts_data is older than the announced
\* one, a tombstone included, the reply code is dm.
C16_Original ==
    [][\A s \in Sessions :
          (RowStep(s) /\ LocalOlder(RowRecord(s), rcv'[s].remote)) =>
             RowReply(s) = <<<<rcv'[s].remote.object_hash, "dm">>>>]_vars

\* C16, amended: whenever the local ts_data is older than the announced
\* one, a tombstone included, the reply asks for the data: with d alone when
\* the record is a tombstone or data whose metadata and content-type are at
\* least as new as announced, with dm when the local metadata is older as
\* well or the session can open nothing of the object.  Nothing is written.
C16_OlderLocal ==
    [][\A s \in Sessions :
          LET l == RowRecord(s)
              remote == rcv'[s].remote
          IN (RowStep(s) /\ LocalOlder(l, remote)) =>
                /\ \E code \in {"d", "dm"} :
                      RowReply(s) = <<<<remote.object_hash, code>>>>
                /\ (/\ Openable(s, l)
                    /\ \/ l.deleted
                       \/ /\ l.ts_meta >= remote.ts_meta
                          /\ l.ts_ctype >= remote.ts_ctype) =>
                      RowReply(s) = <<<<remote.object_hash, "d">>>>
                /\ (\/ ~Openable(s, l)
                    \/ ~l.deleted /\ l.ts_meta < remote.ts_meta) =>
                      RowReply(s) = <<<<remote.object_hash, "dm">>>>
                /\ disk' = disk]_vars

\* A receiver whose data is older but whose metadata is not was asked about
\* the object and wanted the data alone.
C16_Witness ==
    \E s \in Sessions :
       LET l == disk[DirOf(rcv[s])] IN
       /\ rcv[s].pc = "mc_line"
       /\ rcv[s].rows = 1
       /\ rcv[s].remote.object_hash = ObjectHash
       /\ Openable(s, l)
       /\ ~l.deleted
       /\ l.ts_data < rcv[s].remote.ts_data
       /\ l.ts_meta >= rcv[s].remote.ts_meta
       /\ rcv[s].wanted = <<<<ObjectHash, "d">>>>

\* The record holds something newer than the row announces.
LocalNewer(l, remote) == l.ts_data > remote.ts_data

\* C17 as stated: whenever the local ts_data is newer than the announced
\* one, no reply line is emitted.
C17_Original ==
    [][\A s \in Sessions :
          (RowStep(s) /\ LocalNewer(RowRecord(s), rcv'[s].remote)) =>
             RowReply(s) = <<>>]_vars

\* C17, amended: whenever the record that the session can open (a tombstone
\* or durable data) is newer than the announced ts_data, the data is not
\* asked for: there is no reply line when the record is a tombstone or its
\* metadata and content-type are at least as new as announced, and the
\* reply is m when the announced ts_meta is newer than the local one.  A
\* newer fragment that the session cannot open (non-durable, or of another
\* frag index) is no local record: the reply is dm.  Nothing is written.
C17_NewerLocal ==
    [][\A s \in Sessions :
          LET l == RowRecord(s)
              remote == rcv'[s].remote
          IN (RowStep(s) /\ LocalNewer(l, remote)) =>
                /\ Openable(s, l) =>
                      \/ RowReply(s) = <<>>
                      \/ RowReply(s) = <<<<remote.object_hash, "m">>>>
                /\ (/\ Openable(s, l)
                    /\ \/ l.deleted
                       \/ /\ l.ts_meta >= remote.ts_meta
                          /\ l.ts_ctype >= remote.ts_ctype) =>
                      RowReply(s) = <<>>
                /\ (Openable(s, l) /\ ~l.deleted
                       /\ l.ts_meta < remote.ts_meta) =>
                      RowReply(s) = <<<<remote.object_hash, "m">>>>
                /\ ~Openable(s, l) =>
                      RowReply(s) = <<<<remote.object_hash, "dm">>>>
                /\ disk' = disk]_vars

\* A receiver with newer durable data was offered older data and asked for
\* nothing, then was offered the older data with metadata newer than its
\* own and asked for the metadata.
C17_Witness ==
    \E s \in Sessions :
       LET l == disk[DirOf(rcv[s])] IN
       /\ rcv[s].pc = "mc_line"
       /\ rcv[s].rows = 2
       /\ rcv[s].announced = <<ObjectHash, ObjectHash>>
       /\ Openable(s, l)
       /\ ~l.deleted
       /\ l.ts_data > rcv[s].remote.ts_data
       /\ l.ts_meta < rcv[s].remote.ts_meta
       /\ rcv[s].wanted = <<<<ObjectHash, "m">>>>

\* C18: a step that answers a row makes a non-durable fragment durable only
\* if the row announces it durable at the fragment's ts_data to a session of
\* the fragment's frag index, and the commit succeeded; any other row leaves
\* every record as it is; a durable record is never changed by a row, so
\* announcing the row again leaves the fragment durable.
C18_PromotionSafe ==
    [][\A s \in Sessions :
          RowStep(s) =>
             \A d \in Dirs :
                LET l == disk[d]
                    remote == rcv'[s].remote
                    due == /\ d = DirOf(rcv[s])
                           /\ remote.object_hash = ObjectHash
                           /\ l.ts_data > 0
                           /\ ~l.deleted
                           /\ ~l.durable
                           /\ remote.durable
                           /\ remote.ts_data = l.ts_data
                           /\ rcv[s].frag_index = l.frag_index
                IN /\ (disk'[d].durable /\ ~l.durable) =>
                         (due /\ rcv'[s].commit = "ok")
                   /\ ~due => disk'[d] = l
                   /\ l.durable => disk'[d] = l
                   /\ disk'[d] \in {l, Commit(l)}]_vars

\* A non-durable fragment was made durable by a row, and a second durable
\* row at the same ts_data found it durable and left it so.
C18_Witness ==
    \E s \in Sessions :
       LET l == disk[DirOf(rcv[s])] IN
       /\ rcv[s].pc = "mc_line"
       /\ rcv[s].rows = 2
       /\ rcv[s].mutations = 1
       /\ rcv[s].commit = ""
       /\ rcv[s].announced = <<ObjectHash, ObjectHash>>
       /\ rcv[s].remote.durable
       /\ rcv[s].remote.ts_data = l.ts_data
       /\ rcv[s].frag_index = l.frag_index
       /\ l.durable /\ ~l.deleted
       /\ l.writes = 1

\* The step answers a durable row about the session's non-durable fragment
\* at the fragment's ts_data: the commit is called.
PromotionStep(s) ==
    /\ RowStep(s)
    /\ rcv'[s].remote.object_hash = ObjectHash
    /\ PromotionDue(rcv[s].frag_index, RowRecord(s), rcv'[s].remote)

\* The step changes nothing of the session but what reading and answering a
\* row changes: it stays in the missing-check with its counters as before.
GoesOn(s) ==
    /\ rcv'[s].pc = "mc_line"
    /\ rcv'[s].exit = ""
    /\ rcv'[s].successes = rcv[s].successes
    /\ rcv'[s].failures = rcv[s].failures
    /\ rcv'[s].body = rcv[s].body
    /\ rcv'[s].holds_sem = rcv[s].holds_sem
    /\ locks' = locks

\* C19 as stated: when the commit of the promotion succeeds no reply line is
\* emitted, the fragment is durable, the counters are unchanged and the
\* session goes on.
C19_Original ==
    [][\A s \in Sessions :
          (PromotionStep(s) /\ rcv'[s].commit = "ok") =>
             /\ RowReply(s) = <<>>
             /\ disk'[DirOf(rcv[s])].durable
             /\ GoesOn(s)]_vars

\* C19, amended: when the commit of the promotion succeeds the fragment is
\* durable, the data is not asked for, the counters are unchanged and the
\* session goes on; there is no reply line unless the row announces
\* metadata newer than the fragment's, and then the reply is m.
C19_PromotionCommitted ==
    [][\A s \in Sessions :
          LET l == RowRecord(s)
              remote == rcv'[s].remote
          IN (PromotionStep(s) /\ rcv'[s].commit = "ok") =>
                /\ disk' = [disk EXCEPT ![DirOf(rcv[s])] = Commit(l)]
                /\ disk'[DirOf(rcv[s])].durable
                /\ remote.ts_meta <= l.ts_meta => RowReply(s) = <<>>
                /\ remote.ts_meta > l.ts_meta =>
                      RowReply(s) = <<<<remote.object_hash, "m">>>>
                /\ rcv'[s].exceptions = rcv[s].exceptions
                /\ GoesOn(s)]_vars

\* A session promoted its fragment on its only row, asked for nothing and
\* completed both phases without a sub-request.
C19_Witness ==
    \E s \in Sessions :
       LET l == disk[DirOf(rcv[s])] IN
       /\ Completed(s)
       /\ rcv[s].rows = 1
       /\ rcv[s].mutations = 1
       /\ rcv[s].dispatched = 0
       /\ rcv[s].successes = 0
       /\ rcv[s].wanted = <<>>
       /\ l.durable /\ l.writes = 1
       /\ l.frag_index = rcv[s].frag_index
       /\ BodyLines(s) = <<MissingCheckStartLine, MissingCheckEndLine,
                           UpdatesStartLine, UpdatesEndLine>>

\* The commit of the promotion raised, or returned leaving the fragment
\* non-durable.
FailedPromotion(s) ==
    PromotionStep(s) /\ rcv'[s].commit \in {"noop", "raise"}

\* C20 as stated: when the commit raises or does not make the fragment
\* durable, the reply is dm, an exception is logged, the fragment stays
\* non-durable and the session goes on.
C20_Original ==
    [][\A s \in Sessions :
          FailedPromotion(s) =>
             /\ RowReply(s) = <<<<rcv'[s].remote.object_hash, "dm">>>>
             /\ rcv'[s].exceptions = rcv[s].exceptions + 1
             /\ disk' = disk
             /\ GoesOn(s)]_vars

\* C20, amended: when the commit raises or does not make the fragment
\* durable, the reply is dm, the fragment stays non-durable and the session
\* goes on; an exception is logged when the commit raised and none when it
\* returned; a session that logged such an exception and completed ends its
\* body with :MISSING_CHECK: END, :UPDATES: START, :UPDATES: END.
C20_PromotionFailed ==
    /\ [][\A s \in Sessions :
             FailedPromotion(s) =>
                /\ RowReply(s) = <<<<rcv'[s].remote.object_hash, "dm">>>>
                /\ rcv'[s].exceptions =
                      rcv[s].exceptions
                         + (IF rcv'[s].commit = "raise" THEN 1 ELSE 0)
                /\ disk' = disk
                /\ ~disk'[DirOf(rcv[s])].durable
                /\ GoesOn(s)]_vars
    /\ [](\A s \in Sessions :
             (Completed(s) /\ rcv[s].exceptions > 0) =>
                /\ rcv[s].status = 200
                /\ LastLines(BodyLines(s), 3) =
                      <<MissingCheckEndLine, UpdatesStartLine,
                        UpdatesEndLine>>)

\* The commit raised on the only row of a session, which logged it, asked
\* for the object and completed both phases; the fragment is as it was.
C20_Witness ==
    \E s \in Sessions :
       LET l == disk[DirOf(rcv[s])] IN
       /\ Completed(s)
       /\ rcv[s].rows = 1
       /\ rcv[s].exceptions = 1
       /\ rcv[s].dispatched = 0
       /\ rcv[s].mutations = 0
       /\ l.ts_data > 0 /\ ~l.durable /\ l.writes = 0
       /\ l.frag_index = rcv[s].frag_index
       /\ BodyLines(s) = <<MissingCheckStartLine, <<ObjectHash, "dm">>,
                           MissingCheckEndLine, UpdatesStartLine,
                           UpdatesEndLine>>

(***************************************************************************)
(* The updates phase.                                                      *)
(***************************************************************************)
\* The body length a dispatched sub-request declared.
DeclaredOf(call) == IF call.length < 0 THEN 0 ELSE call.length

\* The session goes on reading sub-requests.
ReadingUpdates == rcv[1].pc = "up_line"

\* A step that hands a sub-request to its handler.
Dispatch == Len(rcv'[1].calls) = Len(rcv[1].calls) + 1

\* A step in which the peer wrote a well-formed sub-request.
Wrote == Len(rcv'[1].sent) = Len(rcv[1].sent) + 1

\* C21: a sub-request that declares a body of N bytes consumes exactly N
\* bytes of the stream before the next sub-request line is read, whatever
\* its handler did: what a failing handler or one that read a prefix left
\* behind is drained, nothing of it is left in front of the next line, and
\* the well-formed sub-request that follows is dispatched with its own
\* method, path and declared length.
C21_BodyConsumed ==
    /\ [](ReadingUpdates =>
            /\ rcv[1].unread = 0
            /\ \A i \in 1..Len(rcv[1].calls) :
                  /\ rcv[1].calls[i].consumed = DeclaredOf(rcv[1].calls[i])
                  /\ rcv[1].calls[i].read <= rcv[1].calls[i].consumed)
    /\ [][(ReadingUpdates /\ Wrote) =>
            /\ Dispatch
            /\ LET call == rcv'[1].calls[Len(rcv'[1].calls)]
                   wrote == rcv'[1].sent[Len(rcv'[1].sent)]
               IN /\ call.method = wrote.method
                  /\ call.path = wrote.path
                  /\ call.length = wrote.length]_vars

\* A handler failed having read one byte of two, and the sub-request after
\* it was dispatched as it was written.
C21_Witness ==
    /\ Len(rcv[1].calls) = 3
    /\ rcv[1].calls[2].length = MaxBody
    /\ rcv[1].calls[2].read = 1
    /\ rcv[1].calls[2].consumed = MaxBody
    /\ rcv[1].calls[3].method = "DELETE"
    /\ rcv[1].failures = 1
    /\ ReadingUpdates

\* The (method, path) pairs of a sequence of sub-requests or of calls.
Targets(seq) == [i \in 1..Len(seq) |-> <<seq[i].method, seq[i].path>>]

\* C22: sub-request handlers are invoked in wire order.  At every moment
\* the sequence of (method, path) pairs handed to the handlers equals the
\* sequence of well-formed sub-requests the peer has written up to there,
\* each one dispatched exactly once, and a call once made stays where it is
\* in the sequence: nothing is skipped, repeated or reordered.
C22_WireOrder ==
    /\ [](Targets(rcv[1].calls) = Targets(rcv[1].sent))
    /\ [][\/ Targets(rcv'[1].calls) = Targets(rcv[1].calls)
          \/ /\ Dispatch
             /\ Wrote
             /\ SubSeq(Targets(rcv'[1].calls), 1, Len(rcv[1].calls))
                   = Targets(rcv[1].calls)]_vars

\* Five sub-requests, two of them written twice, all dispatched in the
\* order they were written.
C22_Witness ==
    /\ Targets(rcv[1].calls) =
          <<<<"PUT", ObjectPath>>, <<"DELETE", OtherPath>>,
            <<"POST", ObjectPath>>, <<"PUT", ObjectPath>>,
            <<"DELETE", OtherPath>>>>
    /\ rcv[1].successes = 4
    /\ rcv[1].exit = "http_error"

\* C23: the counters of the updates phase account for every sub-request
\* once.  The successes and the failures add up to the number of
\* sub-requests handed to the handlers; each dispatch raises exactly one
\* of the two by one, the successes when the handler answered 2xx and the
\* failures when it answered anything else; no other step changes them and
\* neither ever goes down.
C23_Counters ==
    /\ [](/\ rcv[1].successes + rcv[1].failures = Len(rcv[1].calls)
          /\ rcv[1].dispatched = Len(rcv[1].calls))
    /\ [][/\ Dispatch =>
               IF rcv'[1].resp_status \in 200..299
               THEN /\ rcv'[1].successes = rcv[1].successes + 1
                    /\ rcv'[1].failures = rcv[1].failures
               ELSE /\ rcv'[1].successes = rcv[1].successes
                    /\ rcv'[1].failures = rcv[1].failures + 1
          /\ ~Dispatch =>
               /\ rcv'[1].successes = rcv[1].successes
               /\ rcv'[1].failures = rcv[1].failures]_vars

\* Two sub-requests answered 201 and 204 and one answered 500 have been
\* counted.
C23_Witness ==
    /\ rcv[1].successes = 2
    /\ rcv[1].failures = 1
    /\ rcv[1].resp_status = 204
    /\ \E i \in 1..Len(rcv[1].calls) : rcv[1].calls[i].read < MaxBody
                                        /\ rcv[1].calls[i].method = "PUT"

\* The session was aborted for its failures: the exception is the last
\* thing of the response.
Aborted(r) ==
    /\ r.exit = "exception"
    /\ Len(r.body) > 0
    /\ r.body[Len(r.body)] = TooManyLine(r.failures, r.successes)

\* C24: the failure ratio aborts the session after a sub-request if and
\* only if, counting that sub-request, the failures have reached the
\* threshold and exceed ratio * successes.  At or above the threshold with
\* failures <= ratio * successes the session goes on, and below the
\* threshold it is never aborted.
C24_RatioAbort ==
    [][Dispatch =>
         (Aborted(rcv'[1]) <=>
            /\ rcv'[1].failures >= ReplicationFailureThreshold
            /\ rcv'[1].failures * FailureRatioDen
                  > FailureRatioNum * rcv'[1].successes)]_vars

\* The failure that reaches the threshold aborts a session that has
\* counted a success.
C24_Witness ==
    /\ Aborted(rcv[1])
    /\ rcv[1].successes > 0
    /\ rcv[1].failures = ReplicationFailureThreshold

\* The other side of the condition: the failures are at the threshold, the
\* ratio is not exceeded and the session reads on.
C24_AtThreshold ==
    /\ ReadingUpdates
    /\ rcv[1].failures >= ReplicationFailureThreshold
    /\ rcv[1].successes >= ReplicationFailureThreshold

\* The counters stand where the failure ratio is exceeded.
RatioExceeded(r) ==
    /\ r.failures >= ReplicationFailureThreshold
    /\ r.failures * FailureRatioDen > FailureRatioNum * r.successes

\* C25: when the failure ratio is exceeded the session is over.  Its
\* response ends with :ERROR: 0 'Too many <F> failures to <S> successes',
\* F and S being the counters at that moment, under the HTTP status 200;
\* from then on nothing is read, parsed, dispatched or added to the
\* response.  A session whose sub-requests all fail has dispatched exactly
\* as many as the threshold.
C25_AbortIsFinal ==
    /\ [](RatioExceeded(rcv[1]) =>
            /\ rcv[1].pc = "done"
            /\ rcv[1].status = 200
            /\ LastLines(rcv[1].body, 1) =
                  <<ErrorLine(0, <<"Too many", ToString(rcv[1].failures),
                                   "failures to",
                                   ToString(rcv[1].successes),
                                   "successes">>)>>
            /\ Cardinality(ErrorLinesOf(rcv[1].body)) = 1
            /\ \A i \in DOMAIN rcv[1].body :
                  rcv[1].body[i] # UpdatesStartLine
            /\ (rcv[1].successes = 0 =>
                  Len(rcv[1].calls) = ReplicationFailureThreshold))
    /\ [][RatioExceeded(rcv[1]) =>
            /\ rcv'[1].calls = rcv[1].calls
            /\ rcv'[1].sent = rcv[1].sent
            /\ rcv'[1].reads = rcv[1].reads
            /\ rcv'[1].body = rcv[1].body]_vars

\* As many failing DELETEs as the threshold, and the session is aborted.
C25_Witness ==
    /\ RatioExceeded(rcv[1])
    /\ rcv[1].successes = 0
    /\ \A i \in 1..Len(rcv[1].calls) : rcv[1].calls[i].method = "DELETE"
    /\ rcv[1].exit = "exception"

\* C26: a session that reaches the end of its updates (:UPDATES: END or
\* the end of the stream) with failures counted and the ratio never
\* exceeded has dispatched every sub-request it was sent, and its response
\* ends with the single line
\* :ERROR: 500 'ERROR: With :UPDATES: <F> failures to <S> successes'
\* carrying the final totals, under the HTTP status 200 and without the
\* :UPDATES: markers.
C26_FailuresReported ==
    /\ [][(UpdatesEnd(1) /\ rcv[1].failures > 0) =>
            /\ rcv'[1].body = rcv[1].body \o
                  <<ErrorLine(500, <<"ERROR: With :UPDATES:",
                                     ToString(rcv[1].failures),
                                     "failures to",
                                     ToString(rcv[1].successes),
                                     "successes">>)>>
            /\ rcv'[1].pc = "done"
            /\ rcv'[1].status = 200
            /\ rcv'[1].calls = rcv[1].calls
            /\ rcv'[1].failures = rcv[1].failures
            /\ rcv'[1].successes = rcv[1].successes]_vars
    /\ [](rcv[1].exit = "http_error" =>
            /\ rcv[1].failures > 0
            /\ ~RatioExceeded(rcv[1])
            /\ Targets(rcv[1].calls) = Targets(rcv[1].sent)
            /\ rcv[1].failures + rcv[1].successes = Len(rcv[1].sent)
            /\ Cardinality(ErrorLinesOf(rcv[1].body)) = 1
            /\ \A i \in DOMAIN rcv[1].body :
                  rcv[1].body[i] \notin {UpdatesStartLine, UpdatesEndLine})

\* Failures at the threshold among as many successes: the session read to
\* the end and reported the totals.
C26_Witness ==
    /\ rcv[1].exit = "http_error"
    /\ rcv[1].failures = ReplicationFailureThreshold
    /\ rcv[1].successes = ReplicationFailureThreshold
    /\ LastLines(rcv[1].body, 1) =
          <<UpdatesFailedLine(rcv[1].failures, rcv[1].successes)>>

\* A step that reads a sub-request and rejects it before any handler is
\* called.
Rejected ==
    rcv'[1].request_lines = rcv[1].request_lines + 1 /\ ~Dispatch

\* What a rejected sub-request is answered with.
RejectionLines ==
    {ErrorLine(0, UnpackError),
     ErrorLine(0, <<"invalid literal for int() with base 10:", "a">>),
     ErrorLine(0, <<"Invalid subrequest method", "BONK">>)}
    \cup {ErrorLine(0, <<"Got no headers for", m, p>>) :
             m \in Methods, p \in {ObjectPath, OtherPath}}
    \cup {ErrorLine(0, <<"DELETE", "subrequest with content-length", p>>) :
             p \in {ObjectPath, OtherPath}}
    \cup {ErrorLine(0, <<"No content-length sent for", "PUT", p>>) :
             p \in {ObjectPath, OtherPath}}

\* C27 as stated: a structurally wrong sub-request is counted as a failure
\* and the session reads on unless the failure ratio is exceeded.
C27_Original ==
    [][Rejected =>
         /\ rcv'[1].failures = rcv[1].failures + 1
         /\ (RatioExceeded(rcv'[1]) \/ rcv'[1].pc = "up_line")]_vars

\* C27: a structurally wrong sub-request (bad request line, no headers, a
\* header without a colon, a Content-Length that is not a number, a DELETE
\* with a Content-Length, a PUT without one, an unknown method)
\* ends the session at once: it is answered with one :ERROR: 0 line that
\* names what is wrong, under the HTTP status 200; it is not counted, it is
\* never handed to a handler, and nothing after it is read or dispatched.
C27_StructuralErrorEnds ==
    /\ [][Rejected =>
            /\ rcv'[1].failures = rcv[1].failures
            /\ rcv'[1].successes = rcv[1].successes
            /\ rcv'[1].pc = "done"
            /\ rcv'[1].exit = "exception"
            /\ rcv'[1].status = 200
            /\ Len(rcv'[1].body) = Len(rcv[1].body) + 1
            /\ LastLines(rcv'[1].body, 1)[1] \in RejectionLines]_vars
    /\ [](\A i \in 1..Len(rcv[1].calls) :
            LET call == rcv[1].calls[i]
            IN /\ call.method \in Methods
               /\ call.method = "PUT" => call.length >= 0
               /\ call.method = "DELETE" => call.length \in {NoLength, 0})
    /\ [][rcv[1].pc = "done" =>
            /\ rcv'[1].calls = rcv[1].calls
            /\ rcv'[1].reads = rcv[1].reads
            /\ rcv'[1].body = rcv[1].body]_vars

\* A PUT without Content-Length after a sub-request that succeeded: the
\* session is over with one success and no failure counted.
C27_Witness ==
    /\ rcv[1].exit = "exception"
    /\ rcv[1].successes = 1
    /\ rcv[1].failures = 0
    /\ LastLines(rcv[1].body, 1) =
          <<ErrorLine(0, <<"No content-length sent for", "PUT",
                           ObjectPath>>)>>

\* A step that dispatches a sub-request whose body the stream does not
\* hold to its end.
TruncatedDispatch ==
    /\ Dispatch
    /\ LET call == rcv'[1].calls[Len(rcv'[1].calls)]
       IN call.present < DeclaredOf(call)

ReadLabel ==
    [mc_start |-> "missing_check start", mc_line |-> "missing_check line",
     up_start |-> "updates start", up_line |-> "updates line"]

\* A step in which a read of the session fails and ends it: the read timed
\* out, raised, or met the end of the stream where there had to be more.
ReadError ==
    /\ rcv[1].pc \in DOMAIN ReadLabel
    /\ rcv'[1].pc = "done"
    /\ rcv'[1].exit \in {"timeout", "exception", "disconnect", "read_error"}
    /\ ~RatioExceeded(rcv'[1])

\* The step added one :ERROR: line with this code to the response.
ErrorAdded(code) ==
    /\ Len(rcv'[1].body) = Len(rcv[1].body) + 1
    /\ SubSeq(rcv'[1].body, 1, Len(rcv[1].body)) = rcv[1].body
    /\ LET l == rcv'[1].body[Len(rcv'[1].body)]
       IN /\ l[1] = ":ERROR:"
          /\ l[2] = ToString(code)

\* C29 as stated: a read that times out ends the session with an
\* :ERROR: 408 line and any other read or parse error with an :ERROR: 0
\* line.
C29_Original ==
    [][ReadError =>
         IF rcv'[1].exit = "timeout" THEN ErrorAdded(408)
                                     ELSE ErrorAdded(0)]_vars

\* C29: a read that exceeds client_timeout ends the session with the line
\* :ERROR: 408 '<secs> seconds: <label>', the label naming the read that
\* was interrupted (missing_check start, missing_check line, updates
\* start, updates line); an exception raised by a read or by the parsing
\* of what was read ends it with an :ERROR: 0 line; the end of the stream
\* where a START marker or the rest of a sub-request body had to be ends
\* it with no line at all.  After any of them the session is never
\* resumed: nothing more is read, no reply line, marker or error is added
\* to the response and nothing more is dispatched.
C29_ReadErrors ==
    /\ [][ReadError =>
            CASE rcv'[1].exit = "timeout" ->
                   /\ ErrorAdded(408)
                   /\ rcv'[1].body[Len(rcv'[1].body)] =
                         <<":ERROR:", "408", "seconds:",
                           ReadLabel[rcv[1].pc]>>
              [] rcv'[1].exit = "exception" -> ErrorAdded(0)
              [] OTHER ->
                   /\ rcv'[1].body = rcv[1].body
                   /\ \/ rcv[1].pc \in {"mc_start", "up_start"}
                      \/ rcv'[1].read_failed # <<>>]_vars
    /\ [][rcv[1].pc = "done" =>
            /\ rcv'[1].reads = rcv[1].reads
            /\ rcv'[1].body = rcv[1].body
            /\ rcv'[1].calls = rcv[1].calls
            /\ rcv'[1].wanted = rcv[1].wanted
            /\ rcv'[1].pc = "done"
            /\ disk' = disk]_vars

\* The read of a sub-request line timed out after a sub-request had been
\* dispatched.
C29_Witness ==
    /\ rcv[1].exit = "timeout"
    /\ Len(rcv[1].calls) = 1
    /\ LastLines(rcv[1].body, 1) =
          <<ErrorLine(408, <<"seconds:", "updates line">>)>>

\* The subparts of a line that say whether the fragment is durable.
DurableSubparts(line) ==
    IF line.rest = <<>> THEN {}
    ELSE {j \in DOMAIN line.rest[1] : line.rest[1][j][1] = "durable"}

\* C30: decode_missing(encode_missing(x)) = x for every well-formed row x
\* over (object_hash, ts_data, ts_meta, ts_ctype, durable): rows whose
\* metadata or content type has the time of the data (a zero delta) and
\* rows whose timestamps carry offsets included.  A line without a durable
\* subpart decodes to durable = True, and durable:no, durable:false and
\* durable:False decode to durable = False.
C30_RoundTrip ==
    /\ [][(rcv[1].pc = "line" /\ rcv'[1].pc = "decoded") =>
            /\ rcv'[1].remote = rcv[1].remote
            /\ rcv[1].remote \in CodecRows]_vars
    /\ [](rcv[1].pc = "decoded" =>
            /\ DurableSubparts(rcv[1].line) = {} => rcv[1].remote.durable
            /\ \A j \in DurableSubparts(rcv[1].line) :
                  /\ rcv[1].line.rest[1][j][2] \in FalseWords
                  /\ ~rcv[1].remote.durable)

\* A non-durable row read back whose data has an offset and whose metadata
\* has the time of the data and another offset.
C30_Witness ==
    /\ rcv[1].pc = "decoded"
    /\ ~rcv[1].remote.durable
    /\ rcv[1].remote.ts_data = MakeTimestamp(1, 0)
    /\ rcv[1].remote.ts_ctype = MakeTimestamp(1, MaxOffset)
    /\ rcv[1].remote.ts_meta = MakeTimestamp(MaxTs, 0)
    /\ rcv[1].line.rest =
          <<<<<<"m", "1">>, <<"t", "0", "1">>, <<"durable", "False">>>>>>

\* C31: within one session the storage policy, the device, the partition
\* and the frag_index never change, and every sub-request the session
\* dispatches is made for them: its path is
\* /<device>/<partition><sub-request path>, it carries
\* X-Backend-Storage-Policy-Index with the session's policy index and
\* X-Backend-Replication: True, and it carries X-Backend-Ssync-Frag-Index,
\* with the session's frag_index, if and only if the session has one.
C31_SessionScope ==
    /\ [][\A s \in Sessions :
            rcv[s].pc \notin {"new", "http_error"} =>
               /\ rcv'[s].device = rcv[s].device
               /\ rcv'[s].partition = rcv[s].partition
               /\ rcv'[s].policy = rcv[s].policy
               /\ rcv'[s].frag_index = rcv[s].frag_index]_vars
    /\ [](\A s \in Sessions :
            /\ Len(rcv[s].requests) = Len(rcv[s].calls)
            /\ \A i \in 1..Len(rcv[s].requests) :
                 LET q == rcv[s].requests[i]
                     r == rcv[s].request
                 IN /\ q.path = <<r.path[1], r.path[2],
                                  rcv[s].calls[i].path>>
                    /\ q.policy_index =
                          (IF r.policy_hdr = NoHeader THEN "0"
                           ELSE r.policy_hdr)
                    /\ q.replication = "True"
                    /\ q.frag_index =
                          (IF r.frag_hdr = NoHeader THEN NoHeader
                           ELSE r.frag_hdr)
                    /\ (q.frag_index # NoHeader
                          <=> rcv[s].frag_index # NoFragIndex))

\* A session of policy 1 with the frag index 7 has dispatched two
\* sub-requests.
C31_Witness ==
    /\ rcv[1].policy = 1
    /\ rcv[1].frag_index = 7
    /\ Len(rcv[1].requests) = MaxUpdates
    /\ rcv[1].requests[1].path = <<"sda1", "1", ObjectPath>>
    /\ rcv[1].requests[MaxUpdates].frag_index = "7"

\* The header lines of a request that are to be listed, and the names the
\* receiver adds itself.
Listed(q) ==
    {i \in DOMAIN q.wire : q.wire[i] \notin {"Etag", "X-Backend-No-Commit"}}

InjectedNames ==
    {"x-backend-storage-policy-index", "x-backend-replication",
     "x-backend-ssync-frag-index", "x-backend-replication-headers"}

\* C40: the X-Backend-Replication-Headers of a dispatched sub-request is
\* the list of the lowercased names of its wire headers, in wire order,
\* without Etag and X-Backend-No-Commit; the headers the receiver injects
\* are never in the list, and the two excluded wire headers are passed to
\* the handler all the same.
C40_ReplicationHeaders ==
    \A i \in 1..Len(rcv[1].requests) :
       LET q == rcv[1].requests[i]
           listed == q.replication_headers
       IN /\ Len(listed) = Cardinality(Listed(q))
          /\ \A k \in Listed(q) :
                listed[Cardinality({j \in Listed(q) : j <= k})]
                   = LowerHeader[q.wire[k]]
          /\ \A k \in DOMAIN listed : listed[k] \notin InjectedNames
          /\ \A k \in DOMAIN q.wire : LowerHeader[q.wire[k]] \in q.passed

\* A PUT with Etag among its headers and X-Backend-No-Commit as the last
\* has been dispatched after a sub-request with other headers.
C40_Witness ==
    /\ Len(rcv[1].requests) >= 2
    /\ rcv[1].requests[1].wire = PostHeaders
    /\ rcv[1].requests[2].wire = PutHeaders
    /\ rcv[1].requests[2].replication_headers =
          <<"content-length", "x-timestamp", "x-object-meta-test1",
            "specialty-header">>
    /\ {"etag", "x-backend-no-commit"} \subseteq rcv[1].requests[2].passed

\* What the responses so far say of the account: it was created by a PUT
\* that answered 201, it was deleted by a DELETE that answered 204.
OnAccount(resp, method) == resp.target = "account" /\ resp.method = method

WasCreated ==
    \E i \in DOMAIN account.responses :
       OnAccount(account.responses[i], "PUT")
          /\ account.responses[i].status = 201

WasDeleted ==
    \E i \in DOMAIN account.responses :
       OnAccount(account.responses[i], "DELETE")
          /\ account.responses[i].status = 204

\* C32: over any sequence of requests on one account, a PUT of an account
\* that does not exist answers 201 and a PUT of an existing one 202; a
\* DELETE of an account that was never created answers 404 without
\* X-Account-Status, and a DELETE of an existing one, empty or not, 204
\* with X-Account-Status: Deleted; once the account is deleted, a PUT
\* answers 403 'Recently deleted' and a POST or a HEAD 404, each with
\* X-Account-Status: Deleted.
C32_AccountLifecycle ==
    [][LET resp == account'.responses[Len(account'.responses)]
       IN account'.responses # account.responses =>
            /\ OnAccount(resp, "PUT") /\ ~WasCreated => resp.status = 201
            /\ OnAccount(resp, "PUT") /\ WasCreated /\ ~WasDeleted =>
                  resp.status = 202
            /\ OnAccount(resp, "DELETE") /\ ~WasCreated =>
                  resp.status = 404 /\ resp.account_status = NoHeader
            /\ OnAccount(resp, "DELETE") /\ WasCreated /\ ~WasDeleted =>
                  resp.status = 204 /\ resp.account_status = "Deleted"
            /\ OnAccount(resp, "PUT") /\ WasDeleted =>
                  /\ resp.status = 403
                  /\ resp.body = "Recently deleted"
                  /\ resp.account_status = "Deleted"
            /\ (OnAccount(resp, "POST") \/ OnAccount(resp, "HEAD"))
                  /\ WasDeleted =>
                  resp.status = 404 /\ resp.account_status = "Deleted"]_vars

\* An account with a container was deleted, and a PUT and a HEAD after
\* that were refused.
C32_Witness ==
    /\ Len(account.responses) = MaxRequests
    /\ account.containers # {}
    /\ WasDeleted
    /\ account.responses[MaxRequests - 1].status = 403
    /\ account.responses[MaxRequests].method = "HEAD"
    /\ account.responses[MaxRequests].account_status = "Deleted"

\* The announced content-type timestamp is the only thing newer than the
\* record holds.
CtypeAlone(l, remote) ==
    /\ ~l.deleted
    /\ remote.ts_meta <= l.ts_meta
    /\ remote.ts_ctype > l.ts_ctype
    /\ remote.ts_ctype > remote.ts_data

\* The code the rule gives: d for newer announced data, m for newer
\* announced metadata when the record has metadata, d before m.
RuleReply(l, remote) ==
    LET d == remote.ts_data > l.ts_data
        m == ~l.deleted /\ remote.ts_meta > l.ts_meta
    IN IF d /\ m THEN <<<<remote.object_hash, "dm">>>>
       ELSE IF d THEN <<<<remote.object_hash, "d">>>>
       ELSE IF m THEN <<<<remote.object_hash, "m">>>>
       ELSE <<>>

NonDurableOnly(l) == l.ts_data > 0 /\ ~l.deleted /\ ~l.durable

\* C34: a local non-durable fragment never suppresses a wanted reply.  When
\* the only local record of a hash is a non-durable fragment at ts_data T,
\* every announced row of the hash with another ts_data, older or newer,
\* durable or not, is answered `<hash> dm`, and the fragment stays as it
\* is, non-durable; a row is left without reply only at exactly T, as the
\* row that offers the session's fragment at T non-durable is.
C34_NonDurableLocal ==
    [][\A s \in Sessions :
          LET l == RowRecord(s)
              remote == rcv'[s].remote
          IN (RowStep(s) /\ NonDurableOnly(l)) =>
                /\ remote.ts_data # l.ts_data =>
                      /\ RowReply(s) = <<<<remote.object_hash, "dm">>>>
                      /\ disk' = disk
                /\ RowReply(s) = <<>> => remote.ts_data = l.ts_data
                /\ (/\ remote.ts_data = l.ts_data
                    /\ ~remote.durable
                    /\ rcv[s].frag_index = l.frag_index) =>
                      /\ RowReply(s) = <<>>
                      /\ disk' = disk]_vars

\* A receiver holding a non-durable fragment was offered an older durable
\* one and asked for all of it.
C34_Witness ==
    \E s \in Sessions :
       LET l == disk[DirOf(rcv[s])] IN
       /\ rcv[s].pc = "mc_line"
       /\ rcv[s].rows = 1
       /\ rcv[s].remote.object_hash = ObjectHash
       /\ rcv[s].remote.durable
       /\ NonDurableOnly(l)
       /\ rcv[s].frag_index = l.frag_index
       /\ rcv[s].remote.ts_data < l.ts_data
       /\ rcv[s].wanted = <<<<ObjectHash, "dm">>>>

\* A request line was read that made no sub-request: what followed it was
\* structurally wrong.
HasRejected == rcv[1].request_lines > Len(rcv[1].sent)

\* C35: a structurally invalid sub-request (a method other than PUT, POST
\* and DELETE, a request line without a path, no headers, a header line
\* without a colon, a Content-Length that is not an integer, a DELETE with
\* a Content-Length, a PUT without one) ends the session: the last line of
\* the response is `:ERROR: 0 '<message>'`; no handler is invoked for the
\* sub-request, not even one that exists under the name of the invalid
\* method; and no later sub-request is parsed or dispatched.
C35_InvalidSubrequest ==
    /\ [](HasRejected =>
            /\ rcv[1].pc = "done"
            /\ rcv[1].exit = "exception"
            /\ rcv[1].body[Len(rcv[1].body)] \in RejectionLines
            /\ rcv[1].request_lines = Len(rcv[1].sent) + 1
            /\ Len(rcv[1].calls) <= Len(rcv[1].sent)
            /\ \A i \in DOMAIN rcv[1].calls :
                  /\ rcv[1].calls[i].method = rcv[1].sent[i].method
                  /\ rcv[1].calls[i].path = rcv[1].sent[i].path
                  /\ rcv[1].calls[i].method \in {"PUT", "POST", "DELETE"})
    /\ [][HasRejected =>
            /\ rcv'[1].request_lines = rcv[1].request_lines
            /\ rcv'[1].sent = rcv[1].sent
            /\ rcv'[1].calls = rcv[1].calls
            /\ rcv'[1].requests = rcv[1].requests]_vars

\* A sub-request with the method BONK after one that was dispatched: one
\* handler call in all, and the session is over.
C35_Witness ==
    /\ HasRejected
    /\ rcv[1].request_lines = 2
    /\ Len(rcv[1].calls) = 1
    /\ rcv[1].body[Len(rcv[1].body)] =
          ErrorLine(0, <<"Invalid subrequest method", "BONK">>)

\* The session ran the missing-check and the updates to their end without
\* error: its response ends with the two markers of the updates.
RanToEnd(s) ==
    /\ rcv[s].pc = "done"
    /\ Len(rcv[s].body) >= 2
    /\ LastLines(rcv[s].body, 2) = <<UpdatesStartLine, UpdatesEndLine>>

\* C36: the receiver shuts down and closes the socket at the end of a
\* session if and only if the session did not complete both phases
\* normally: exactly once after a timeout, a parse error, an exception or
\* a client disconnect, and never after a session that ran the
\* missing-check and the updates to their end without error.
C36_HardDisconnect ==
    /\ [](\A s \in Sessions :
            /\ rcv[s].pc # "done" => rcv[s].socket_closed = 0
            /\ rcv[s].pc = "done" =>
                  /\ rcv[s].socket_closed = (IF RanToEnd(s) THEN 0 ELSE 1)
                  /\ rcv[s].disconnect = ~RanToEnd(s)
                  /\ rcv[s].exit \in {"timeout", "exception", "disconnect",
                                      "read_error"} =>
                        rcv[s].socket_closed = 1
                  /\ RanToEnd(s) => rcv[s].failures = 0)
    /\ [][\A s \in Sessions :
            rcv[s].pc = "done" =>
               rcv'[s].socket_closed = rcv[s].socket_closed]_vars

\* A session whose peer stopped sending in the middle of the updates, after
\* a sub-request that succeeded: the read timed out and the socket was
\* closed, once.
C36_Witness ==
    /\ rcv[1].pc = "done"
    /\ rcv[1].exit = "timeout"
    /\ rcv[1].successes = 1
    /\ rcv[1].socket_closed = 1
    /\ rcv[1].disconnect

\* C37: in every response at most one `:ERROR:` line is emitted and it is
\* the last line; a response with an `:ERROR:` line raised in the updates
\* phase (structural error, failed sub-requests, ratio abort, timeout) has
\* neither `:UPDATES: START` nor `:UPDATES: END`: the two markers are
\* emitted only after the whole input of the updates has been processed
\* without a failure.
C37_OneErrorLine ==
    /\ [](\A s \in Sessions :
            LET body == rcv[s].body
                errors == ErrorLinesOf(body)
                markers == {i \in DOMAIN body :
                              body[i] \in {UpdatesStartLine, UpdatesEndLine}}
            IN /\ Cardinality(errors) <= 1
               /\ errors \subseteq {Len(body)}
               /\ errors # {} => markers = {} /\ rcv[s].pc = "done"
               /\ markers # {} =>
                     /\ markers = {Len(body) - 1, Len(body)}
                     /\ body[Len(body) - 1] = UpdatesStartLine
                     /\ body[Len(body)] = UpdatesEndLine
                     /\ rcv[s].failures = 0
                     /\ rcv[s].unread = 0
                     /\ rcv[s].pc \in {"end", "done"})
    /\ [][\A s \in Sessions :
            rcv'[s].body # rcv[s].body =>
               /\ ErrorLinesOf(rcv[s].body) = {}
               /\ Len(rcv'[s].body) > Len(rcv[s].body)
               /\ SubSeq(rcv'[s].body, 1, Len(rcv[s].body)) = rcv[s].body]_vars

\* The updates of a session were read to their end with a sub-request that
\* had failed: the response ends with the one error line, after the end of
\* the missing-check.
C37_Witness ==
    /\ rcv[1].pc = "done"
    /\ rcv[1].failures = 1
    /\ rcv[1].successes = 2
    /\ LastLines(rcv[1].body, 2) =
          <<MissingCheckEndLine, UpdatesFailedLine(1, 2)>>

\* The phase of a session, read off the receiver: Init until the first
\* marker of the missing-check has been read, Missing while its rows are
\* read, BetweenPhases until the first marker of the updates has been read,
\* Updates until the session is left, then Done or Failed.
PhaseOf(r) ==
    CASE r.pc \in {"new", "init", "semaphore", "lock", "mc_start"} -> "Init"
      [] r.pc = "mc_line" -> "Missing"
      [] r.pc = "up_start" -> "BetweenPhases"
      [] r.pc \in {"up_line", "end"} -> "Updates"
      [] r.pc = "done" /\ r.exit = "ok" -> "Done"
      [] OTHER -> "Failed"

PhaseOrder == <<"Init", "Missing", "BetweenPhases", "Updates", "Done">>

\* C38: the phase of a session only moves forward along Init, Missing,
\* BetweenPhases, Updates, Done, or to Failed from any of them: no phase
\* is entered twice, the updates are never entered before the
\* missing-check has consumed `:MISSING_CHECK: END`, no sub-request is
\* dispatched outside the updates phase, and Done and Failed are terminal.
C38_PhaseOrder ==
    /\ [][\A s \in Sessions :
            LET p == PhaseOf(rcv[s])
                q == PhaseOf(rcv'[s])
            IN /\ q # p =>
                    \/ q = "Failed" /\ p # "Done"
                    \/ \E i \in 1..(Len(PhaseOrder) - 1) :
                          PhaseOrder[i] = p /\ PhaseOrder[i + 1] = q
               /\ p \in {"Done", "Failed"} => rcv'[s] = rcv[s]
               /\ rcv'[s].calls # rcv[s].calls => p = "Updates"
               /\ q = "BetweenPhases" /\ p # q =>
                     /\ p = "Missing"
                     /\ rcv'[s].body[Len(rcv'[s].body)] = MissingCheckEndLine
                     /\ rcv'[s].reads = rcv[s].reads + 1]_vars
    /\ [](\A s \in Sessions :
            /\ PhaseOf(rcv[s]) \in {"BetweenPhases", "Updates", "Done"} =>
                  Cardinality({i \in DOMAIN rcv[s].body :
                                 rcv[s].body[i] = MissingCheckEndLine}) = 1
            /\ PhaseOf(rcv[s]) \in {"Init", "Missing", "BetweenPhases"} =>
                  rcv[s].calls = <<>> /\ rcv[s].dispatched = 0)

\* A session went through every phase: it answered a row, dispatched
\* sub-requests and ended normally.
C38_Witness ==
    /\ PhaseOf(rcv[1]) = "Done"
    /\ rcv[1].rows = 1
    /\ Len(rcv[1].calls) = 2
    /\ rcv[1].reads >= 6

\* The step in which the read of a START marker meets the end of the
\* stream.
EndOfStream(s) ==
    /\ rcv[s].pc \in {"mc_start", "up_start"}
    /\ rcv'[s].exit = "disconnect"

\* C39: when the stream ends at a phase boundary, before
\* `:MISSING_CHECK: START` or after `:MISSING_CHECK: END` and before
\* `:UPDATES: START`, the session ends as a client disconnect: no
\* `:ERROR:` line is emitted, the response holds only what was emitted so
\* far (a single blank line, or that and the markers and the replies of the
\* missing-check), nothing is dispatched, the status is 200 and the
\* semaphore is released.
C39_BoundaryDisconnect ==
    /\ [][\A s \in Sessions :
            EndOfStream(s) =>
               /\ rcv'[s].pc = "done"
               /\ rcv'[s].body = rcv[s].body
               /\ rcv'[s].status = 200
               /\ rcv'[s].calls = <<>>
               /\ rcv'[s].dispatched = 0
               /\ rcv'[s].exceptions = rcv[s].exceptions
               /\ rcv[s].holds_sem /\ ~rcv'[s].holds_sem
               /\ rcv'[s].sem_releases = rcv[s].sem_releases + 1
               /\ sem' = sem + 1
               /\ disk' = disk]_vars
    /\ [](\A s \in Sessions :
            rcv[s].exit = "disconnect" =>
               /\ ErrorLinesOf(rcv[s].body) = {}
               /\ \/ rcv[s].body = <<BlankLine>>
                  \/ rcv[s].body = <<BlankLine, MissingCheckStartLine>>
                                      \o rcv[s].wanted
                                      \o <<MissingCheckEndLine>>
               /\ sem = conf.replication_concurrency
               /\ locks = {})

\* The peer answered a row and went away before the updates: the response
\* holds the blank line, the markers of the missing-check and the reply.
C39_Witness ==
    /\ rcv[1].exit = "disconnect"
    /\ rcv[1].rows = 1
    /\ Len(rcv[1].wanted) = 1
    /\ Len(rcv[1].body) = 4
    /\ rcv[1].status = 200
    /\ sem = 1

=============================================================================
